---- MODULE Spec2Model ----
(***************************************************************************)
(* Function Size Calculator (function_size_calculator.py).                 *)
(*                                                                         *)
(* A source line is a sequence of tokens.  A token is a word (an           *)
(* identifier or keyword, what \w+ matches), a punctuation mark, or " ",   *)
(* one unit of leading whitespace.  Whitespace between the tokens of a     *)
(* line is implicit.  The regular expressions of the parsers are matched   *)
(* on the tokens; str.count, str.strip and str.lstrip work on the tokens.  *)
(***************************************************************************)
EXTENDS Integers, Sequences, FiniteSets, TLC

\* ------------------------------------------------------------------ bounds
MaxLines == 4
MaxFuncs == 3
MaxSize == 3
MaxTopN == 3
MaxMinSize == 3

\* --------------------------------------------------------------- variables
VARIABLES
    lang,              \* which parser runs: "js", "java", "cs", "py"
    lines,             \* the lines of the file being parsed
    pc,                \* position of the parser
    line_num,          \* brace parsers: number of the line last read (1-indexed)
    current_function,  \* brace parsers: <<name, start_line, brace_count>> or None
    pending_method,    \* CSharpParser: <<name, start_line>> or None
    i,                 \* PythonParser: index of the outer loop (0-indexed)
    j,                 \* PythonParser: index of the inner loops (0-indexed)
    paren_count,       \* PythonParser: running '(' minus ')'
    end_line,          \* PythonParser: last body line found (0-indexed)
    functions,         \* the list of FunctionInfo built so far
    result,            \* what parse_functions returned, once pc = "done"
    repo_results,      \* write_results: repository name -> list of FunctionInfo
    top_n,             \* write_results: number of rows per repository
    min_size,          \* write_results: minimum size of a reported function
    excel_out,         \* the workbook ExcelWriter saved: repository -> sheet
    json_out,          \* the document JSONWriter dumped: repository -> entry
    repo_path,         \* scan_single_repository: the locator it was called with
    path_exists,       \* the file system: os.path.exists(repo_path)
    clone_outcome,     \* what "git clone" of repo_path does once it runs
    tree,              \* the files below the repository root
    spc,               \* position of scan_single_repository
    temp_dir,          \* scan_single_repository: temp_dir
    temp_exists,       \* the file system: the temporary clone directory exists
    clones,            \* number of "git clone" processes run so far
    local_path,        \* scan_single_repository: local_path
    ext_idx,           \* index of the rglob loop that runs, in Extensions
    visited,           \* files the rglob loops have yielded so far
    scanned,           \* files handed to a parser, in order
    all_functions,     \* scan_single_repository: all_functions
    scan_ret,          \* what scan_single_repository returned
    jobs,              \* main: args.jobs
    output,            \* main: the extension of args.output
    format,            \* main: args.format
    input_file,        \* main: "missing" when args.input_file is given and cannot be read
    repositories,      \* main: the locators of the command line and the input file
    mpc,               \* position of main
    output_format,     \* main: output_format
    futures,           \* main: the tasks submitted to the executor, in order
    completed_count,   \* main: completed_count
    writer_calls       \* main: the formats of the write_results calls made so far

parseVars == <<lang, lines, pc, line_num, current_function, pending_method,
               i, j, paren_count, end_line, functions, result>>

writeVars == <<repo_results, top_n, min_size, excel_out, json_out>>

scanVars == <<repo_path, path_exists, clone_outcome, tree, spc, temp_dir,
              temp_exists, clones, local_path, ext_idx, visited, scanned,
              all_functions, scan_ret>>

mainVars == <<jobs, output, format, input_file, repositories, mpc,
              output_format, futures, completed_count, writer_calls>>

vars == <<parseVars, writeVars, scanVars, mainVars>>

\* ------------------------------------------------------------ Python values
\* None and the empty tuple are both falsy; a failed re match is None.
None == <<>>

Min(S) == CHOOSE x \in S : \A y \in S : x <= y
Max(S) == CHOOSE x \in S : \A y \in S : x >= y

\* ------------------------------------------------------------------ tokens
Punct == {"(", ")", "{", "}", "=", "=>", ":", "#", ",", ";", " "}

\* \w+
IsWord(tok) == tok \notin Punct

\* str.count(ch)
RECURSIVE count(_, _)
count(line, ch) ==
    IF line = <<>> THEN 0
    ELSE (IF Head(line) = ch THEN 1 ELSE 0) + count(Tail(line), ch)

\* str.lstrip()
RECURSIVE lstrip(_)
lstrip(line) ==
    IF line # <<>> /\ Head(line) = " " THEN lstrip(Tail(line)) ELSE line

\* ch in line
In(ch, line) == \E k \in 1..Len(line) : line[k] = ch

\* the position of the first ")" at or after position p, 0 when there is none:
\* where "[^)]*\)" ends when "[^)]*" starts at p
FirstClose(t, p) ==
    LET S == {k \in p..Len(t) : t[k] = ")"}
    IN IF S = {} THEN 0 ELSE Min(S)

\* FunctionInfo.__init__
FunctionInfo(name, file_path, start_line, end_line_, size) ==
    [name |-> name, file_path |-> file_path, start_line |-> start_line,
     end_line |-> end_line_, size |-> size]

\* the file_path argument of parse_functions
FilePath == "/repo/src/file"

\* the net brace count of a line: line.count('{') - line.count('}')
BraceDelta(line) == count(line, "{") - count(line, "}")

\* -------------------------------------------------------- JavaScriptParser
\* (\w+)\s*\([^)]*\)\s*\{ at position k
MethodCore(t, k) ==
    /\ k + 1 <= Len(t)
    /\ IsWord(t[k])
    /\ t[k + 1] = "("
    /\ LET q == FirstClose(t, k + 2)
       IN q # 0 /\ q + 1 <= Len(t) /\ t[q + 1] = "{"

\* the first position of ks at which MethodCore matches, as the match's groups
RECURSIVE FirstCore(_, _)
FirstCore(t, ks) ==
    IF ks = <<>> THEN None
    ELSE IF MethodCore(t, Head(ks)) THEN <<t[Head(ks)]>>
    ELSE FirstCore(t, Tail(ks))

\* ^\s*function\s+(\w+)\s*\(
MatchFunction(line) ==
    LET t == lstrip(line)
    IN IF Len(t) >= 3 /\ t[1] = "function" /\ IsWord(t[2]) /\ t[3] = "("
       THEN <<t[2]>> ELSE None

\* ^\s*(?:const|let|var)\s+(\w+)\s*=\s*(?:async\s*)?\([^)]*\)\s*=>
MatchArrow(line) ==
    LET t == lstrip(line)
        p == IF Len(t) >= 4 /\ t[4] = "async" THEN 5 ELSE 4
    IN IF /\ Len(t) >= p
          /\ t[1] \in {"const", "let", "var"}
          /\ IsWord(t[2])
          /\ t[3] = "="
          /\ t[p] = "("
          /\ LET q == FirstClose(t, p + 1)
             IN q # 0 /\ q + 1 <= Len(t) /\ t[q + 1] = "=>"
       THEN <<t[2]>> ELSE None

\* ^\s*(?:async\s+)?(\w+)\s*\([^)]*\)\s*\{
MatchMethod(line) ==
    LET t == lstrip(line)
    IN FirstCore(t, IF Len(t) >= 1 /\ t[1] = "async" THEN <<2, 1>> ELSE <<1>>)

\* ^\s*(?:public|private|protected|static)?\s*(?:async\s+)?(\w+)\s*\([^)]*\)\s*\{
MatchClassMethod(line) ==
    LET t == lstrip(line)
        Async(k) == IF Len(t) >= k /\ t[k] = "async" THEN <<k + 1, k>> ELSE <<k>>
    IN FirstCore(t,
          IF Len(t) >= 1 /\ t[1] \in {"public", "private", "protected", "static"}
          THEN Async(2) \o Async(1) ELSE Async(1))

\* JavaScriptParser.PATTERNS, in order
PATTERNS(line) ==
    <<MatchFunction(line), MatchArrow(line), MatchMethod(line), MatchClassMethod(line)>>

\* for pattern, func_type in PATTERNS: match = pattern.search(line); if match: ... break
JSMatch(line) ==
    LET ms == PATTERNS(line)
        S == {k \in 1..Len(ms) : ms[k] # None}
    IN IF S = {} THEN None ELSE ms[Min(S)]

\* JSTracked with the size computed without the "+ 1"
JSTracked_SizeOffByOne(line, n, cur, fs) ==
    LET brace_count == cur[3] + BraceDelta(line)
    IN IF brace_count = 0
       THEN [current_function |-> None,
             functions |-> Append(fs, FunctionInfo(cur[1], FilePath, cur[2], n, n - cur[2]))]
       ELSE [current_function |-> <<cur[1], cur[2], brace_count>>, functions |-> fs]

\* JSTracked ending the function as soon as the counter is not positive
JSTracked_EndsBelowZero(line, n, cur, fs) ==
    LET brace_count == cur[3] + BraceDelta(line)
    IN IF brace_count <= 0
       THEN [current_function |-> None,
             functions |-> Append(fs, FunctionInfo(cur[1], FilePath, cur[2],
                                                   n, n - cur[2] + 1))]
       ELSE [current_function |-> <<cur[1], cur[2], brace_count>>, functions |-> fs]

\* the branch taken while a function is tracked
JSTracked(line, n, cur, fs) ==
    LET func_name == cur[1]
        start_line == cur[2]
        brace_count == cur[3] + BraceDelta(line)
    IN IF brace_count = 0
       THEN [current_function |-> None,
             functions |-> Append(fs, FunctionInfo(func_name, FilePath, start_line,
                                                   n, n - start_line + 1))]
       ELSE [current_function |-> <<func_name, start_line, brace_count>>,
             functions |-> fs]

\* the branch taken while no function is tracked
JSLook(line, n, cur, fs) ==
    LET match == JSMatch(line)
        brace_count == BraceDelta(line)
    IN IF match = None
       THEN [current_function |-> cur, functions |-> fs]
       ELSE IF brace_count = 0
       THEN [current_function |-> cur,
             functions |-> Append(fs, FunctionInfo(match[1], FilePath, n, n, 1))]
       ELSE IF brace_count > 0
       THEN [current_function |-> <<match[1], n, brace_count>>, functions |-> fs]
       ELSE [current_function |-> cur, functions |-> fs]

\* JSBody looking for a header on every line, also while a function is tracked
JSBody_AlwaysLook(line, n, cur, fs) ==
    LET r == IF cur # None THEN JSTracked(line, n, cur, fs)
             ELSE [current_function |-> cur, functions |-> fs]
    IN IF cur # None /\ r.current_function = None THEN r
       ELSE LET l == JSLook(line, n, None, r.functions)
            IN [current_function |-> IF r.current_function # None
                                     THEN r.current_function ELSE l.current_function,
                functions |-> l.functions]

\* the body of "for line in f" of JavaScriptParser.parse_functions
JSBody(line, n, cur, fs) ==
    IF cur # None THEN JSTracked(line, n, cur, fs) ELSE JSLook(line, n, cur, fs)

\* -------------------------------------------------------------- JavaParser
\* the leading optional modifiers of a method pattern: each token of mods belongs
\* to a later group of ranks than the one before it
InOrder(mods, ranks) ==
    /\ \A k \in 1..Len(mods) : \E r \in 1..Len(ranks) : mods[k] \in ranks[r]
    /\ \A k \in 1..Len(mods) - 1 :
          \E r1, r2 \in 1..Len(ranks) :
              r1 < r2 /\ mods[k] \in ranks[r1] /\ mods[k + 1] \in ranks[r2]

\* the position of the first "(" of t, 0 when there is none
FirstOpen(t) ==
    LET S == {k \in 1..Len(t) : t[k] = "("}
    IN IF S = {} THEN 0 ELSE Min(S)

\* <modifiers> <type> (<name>) ( : the part of a method pattern up to the "("
MethodHead(t, ranks) ==
    LET p == FirstOpen(t)
    IN /\ p >= 3
       /\ IsWord(t[p - 1])
       /\ IsWord(t[p - 2])
       /\ InOrder(SubSeq(t, 1, p - 3), ranks)

\* ^\s*(?:public|private|protected)?\s*(?:static)?\s*(?:final)?\s*(?:synchronized)?\s*
\*  [\w<>\[\]]+\s+(\w+)\s*\([^)]*\)\s*(?:throws\s+[\w\s,]+)?\s*\{
JavaMatch(line) ==
    LET t == lstrip(line)
        p == FirstOpen(t)
        q == FirstClose(t, p + 1)
        \* the first token after "throws" that is neither a word nor a comma
        S == {k \in q + 2..Len(t) : ~(IsWord(t[k]) \/ t[k] = ",")}
    IN IF /\ MethodHead(t, <<{"public", "private", "protected"}, {"static"},
                             {"final"}, {"synchronized"}>>)
          /\ q # 0
          /\ q + 1 <= Len(t)
          /\ \/ t[q + 1] = "{"
             \/ /\ t[q + 1] = "throws"
                /\ S # {}
                /\ Min(S) > q + 2
                /\ t[Min(S)] = "{"
       THEN <<t[p - 1]>> ELSE None

\* the branch taken while a method is tracked
JavaTracked(line, n, cur, fs) ==
    LET method_name == cur[1]
        start_line == cur[2]
        brace_count == cur[3] + BraceDelta(line)
    IN IF brace_count = 0
       THEN [current_function |-> None,
             functions |-> Append(fs, FunctionInfo(method_name, FilePath, start_line,
                                                   n, n - start_line + 1))]
       ELSE [current_function |-> <<method_name, start_line, brace_count>>,
             functions |-> fs]

\* JavaLook without the single-line branch: a zero count starts tracking
JavaLook_NoSingleLine(line, n, cur, fs) ==
    LET match == JavaMatch(line)
        brace_count == BraceDelta(line)
    IN IF match = None
       THEN [current_function |-> cur, functions |-> fs]
       ELSE IF brace_count >= 0
       THEN [current_function |-> <<match[1], n, brace_count>>, functions |-> fs]
       ELSE [current_function |-> cur, functions |-> fs]

\* the branch taken while no method is tracked
JavaLook(line, n, cur, fs) ==
    LET match == JavaMatch(line)
        brace_count == BraceDelta(line)
    IN IF match = None
       THEN [current_function |-> cur, functions |-> fs]
       ELSE IF brace_count = 0
       THEN [current_function |-> cur,
             functions |-> Append(fs, FunctionInfo(match[1], FilePath, n, n, 1))]
       ELSE IF brace_count > 0
       THEN [current_function |-> <<match[1], n, brace_count>>, functions |-> fs]
       ELSE [current_function |-> cur, functions |-> fs]

\* the body of "for line in f" of JavaParser.parse_functions
JavaBody(line, n, cur, fs) ==
    IF cur # None THEN JavaTracked(line, n, cur, fs) ELSE JavaLook(line, n, cur, fs)

\* ------------------------------------------------------------ CSharpParser
\* ^\s*(?:public|private|protected|internal)?\s*(?:static)?\s*
\*  (?:virtual|override|abstract|sealed|async)?\s*[\w<>\[\]?]+\s+(\w+)\s*\([^)]*\)\s*\{?\s*$
CSMatch(line) ==
    LET t == lstrip(line)
        p == FirstOpen(t)
        q == FirstClose(t, p + 1)
    IN IF /\ MethodHead(t, <<{"public", "private", "protected", "internal"}, {"static"},
                             {"virtual", "override", "abstract", "sealed", "async"}>>)
          /\ q # 0
          /\ \/ q = Len(t)
             \/ q + 1 = Len(t) /\ t[q + 1] = "{"
       THEN <<t[p - 1]>> ELSE None

\* str.rstrip()
RECURSIVE rstrip(_)
rstrip(line) ==
    IF line # <<>> /\ line[Len(line)] = " "
    THEN rstrip(SubSeq(line, 1, Len(line) - 1)) ELSE line

\* str.strip()
strip(line) == rstrip(lstrip(line))

\* the branch taken while a method is tracked
CSTracked(line, n, cur, pend, fs) ==
    LET method_name == cur[1]
        start_line == cur[2]
        brace_count == cur[3] + BraceDelta(line)
    IN IF brace_count = 0
       THEN [current_function |-> None, pending_method |-> pend,
             functions |-> Append(fs, FunctionInfo(method_name, FilePath, start_line,
                                                   n, n - start_line + 1))]
       ELSE [current_function |-> <<method_name, start_line, brace_count>>,
             pending_method |-> pend, functions |-> fs]

\* CSOpen that leaves the pending declaration in place
CSOpen_KeepsPending(line, n, cur, pend, fs) ==
    [current_function |-> <<pend[1], pend[2], 1>>, pending_method |-> pend,
     functions |-> fs]

\* CSOpen that takes the line of the brace for the start of the method
CSOpen_FromBraceLine(line, n, cur, pend, fs) ==
    [current_function |-> <<pend[1], n, 1>>, pending_method |-> None,
     functions |-> fs]

\* the branch taken when a pending method meets its opening brace
CSOpen(line, n, cur, pend, fs) ==
    [current_function |-> <<pend[1], pend[2], 1>>, pending_method |-> None,
     functions |-> fs]

\* the branch that looks for a new method declaration
CSLook(line, n, cur, pend, fs) ==
    LET match == CSMatch(line)
        brace_count == BraceDelta(line)
    IN IF match = None
       THEN [current_function |-> cur, pending_method |-> pend, functions |-> fs]
       ELSE IF In("{", line)
       THEN IF brace_count = 0
            THEN [current_function |-> cur, pending_method |-> None,
                  functions |-> Append(fs, FunctionInfo(match[1], FilePath, n, n, 1))]
            ELSE [current_function |-> <<match[1], n, brace_count>>,
                  pending_method |-> None, functions |-> fs]
       ELSE [current_function |-> cur, pending_method |-> <<match[1], n>>,
             functions |-> fs]

\* the body of "for line in f" of CSharpParser.parse_functions
CSBody(line, n, cur, pend, fs) ==
    IF cur # None THEN CSTracked(line, n, cur, pend, fs)
    ELSE IF pend # None /\ strip(line) = <<"{">> THEN CSOpen(line, n, cur, pend, fs)
    ELSE CSLook(line, n, cur, pend, fs)

\* ------------------------------------------------------------ PythonParser
\* ^\s*(?:async\s+)?def\s+(\w+)\s*\(
FUNC_PATTERN(line) ==
    LET t == lstrip(line)
        k == IF Len(t) >= 1 /\ t[1] = "async" THEN 2 ELSE 1
    IN IF Len(t) >= k + 2 /\ t[k] = "def" /\ IsWord(t[k + 1]) /\ t[k + 2] = "("
       THEN <<t[k + 1]>> ELSE None

\* len(line) - len(line.lstrip())
Indent(line) == Len(line) - Len(lstrip(line))

\* lines[j].count('(') - lines[j].count(')')
ParenDelta(line) == count(line, "(") - count(line, ")")

\* SigCloses without the test of the paren balance
SigCloses_ColonOnly(line, paren) == In(":", line)

\* if ':' in lines[j] and paren_count == 0: break
SigCloses(line, paren) == In(":", line) /\ paren = 0

\* current_line.strip() == '' or current_line.strip().startswith('#')
Skipped(line) == strip(line) = <<>> \/ Head(strip(line)) = "#"

\* BodyEnds that lets a line at the indentation of the header continue the body
BodyEnds_Strict(current_indent, base_indent) == current_indent < base_indent

\* if current_indent <= base_indent: break
BodyEnds(current_indent, base_indent) == current_indent <= base_indent

\* ------------------------------------------------------- the files parsed
JSLines ==
    { <<"function", "foo", "(", ")", "{">>,
      <<"function", "bar", "(", ")", "{", "}">>,
      <<"const", "bar", "=", "(", ")", "=>", "x", "}">>,
      <<"public", "foo", "(", ")", "{">>,
      <<"x">>, <<"{">>, <<"}">>, <<"}", "}">> }

JavaLines ==
    { <<"public", "void", "foo", "(", ")", "{">>,
      <<"void", "bar", "(", ")", "{", "}">>,
      <<"void", "foo", "(", ")", "throws", "x", "{">>,
      <<"x">>, <<"{">>, <<"}">>, <<"}", "}">> }

CSLines ==
    { <<"public", "void", "foo", "(", ")">>,
      <<"void", "bar", "(", ")", "{">>,
      <<"void", "foo", "(", "}", ")", "{">>,
      <<"x">>, <<" ", "{">>, <<"}">>, <<"}", "}">> }

PyLines ==
    { <<"def", "foo", "(", ")", ":">>,
      <<"def", "foo", "(">>,
      <<" ", "def", "bar", "(", ")", ":">>,
      <<" ", "x", ")", ":">>,
      <<" ", "x", ":">>,
      <<" ", "x">>,
      <<"x">>,
      <<"#", "x">>,
      <<>> }

\* the lines of the Python files with a nested def whose signature spans lines:
\* the header of the nested def, a continuation line at the left margin that
\* closes it, and a line deeper than the nested def
PyNestedLines ==
    { <<"def", "foo", "(", ")", ":">>,
      <<" ", "def", "bar", "(">>,
      <<"x", ")", ":">>,
      <<" ", " ", "x">>,
      <<" ", "x">> }

Langs == {"js", "java", "cs", "py"}

LinesOf(l) ==
    CASE l = "js" -> JSLines
      [] l = "java" -> JavaLines
      [] l = "cs" -> CSLines
      [] l = "py" -> PyLines

Files(l) ==
    UNION {[1..n -> LinesOf(l)] : n \in 0..MaxLines}
    \cup (IF l = "py" THEN UNION {[1..n -> PyNestedLines] : n \in 0..MaxLines}
          ELSE {})

\* ------------------------------------------------------------ the parsers
\* no writer runs
WriteIdle ==
    /\ repo_results = <<>>
    /\ top_n = 1
    /\ min_size = 1
    /\ excel_out = None
    /\ json_out = None

\* main does not run
MainIdle ==
    /\ jobs = 1
    /\ output = ".xlsx"
    /\ format = "auto"
    /\ input_file = "ok"
    /\ repositories = <<>>
    /\ mpc = "idle"
    /\ output_format = "auto"
    /\ futures = <<>>
    /\ completed_count = 0
    /\ writer_calls = <<>>

\* scan_single_repository does not run
ScanIdle ==
    /\ repo_path = <<>>
    /\ path_exists = FALSE
    /\ clone_outcome = "none"
    /\ tree = {}
    /\ spc = "idle"
    /\ temp_dir = None
    /\ temp_exists = FALSE
    /\ clones = 0
    /\ local_path = None
    /\ ext_idx = 0
    /\ visited = {}
    /\ scanned = <<>>
    /\ all_functions = <<>>
    /\ scan_ret = None

ParseInit ==
    /\ lang \in Langs
    /\ lines \in Files(lang)
    /\ pc = IF lang = "py" THEN "scan" ELSE "loop"
    /\ line_num = 0
    /\ current_function = None
    /\ pending_method = None
    /\ i = 0
    /\ j = 0
    /\ paren_count = 0
    /\ end_line = 0
    /\ functions = <<>>
    /\ result = <<>>
    /\ WriteIdle
    /\ ScanIdle
    /\ MainIdle

\* the return with a function still tracked at the end of the file recorded up to
\* the last line
ReturnValue_FlushOpen(fs, cur, n) ==
    IF cur # None
    THEN Append(fs, FunctionInfo(cur[1], FilePath, cur[2], n, n - cur[2] + 1))
    ELSE fs

\* return functions
ReturnValue(fs, cur, n) == fs

\* one iteration of "for line in f" of JavaScriptParser.parse_functions
JSLine ==
    /\ lang = "js" /\ pc = "loop" /\ line_num < Len(lines)
    /\ LET r == JSBody(lines[line_num + 1], line_num + 1, current_function, functions)
       IN /\ current_function' = r.current_function
          /\ functions' = r.functions
    /\ line_num' = line_num + 1
    /\ UNCHANGED <<lang, lines, pc, pending_method, i, j, paren_count, end_line, result>>
    /\ UNCHANGED <<writeVars, scanVars, mainVars>>

\* one iteration of "for line in f" of JavaParser.parse_functions
JavaLine ==
    /\ lang = "java" /\ pc = "loop" /\ line_num < Len(lines)
    /\ LET r == JavaBody(lines[line_num + 1], line_num + 1, current_function, functions)
       IN /\ current_function' = r.current_function
          /\ functions' = r.functions
    /\ line_num' = line_num + 1
    /\ UNCHANGED <<lang, lines, pc, pending_method, i, j, paren_count, end_line, result>>
    /\ UNCHANGED <<writeVars, scanVars, mainVars>>

\* one iteration of "for line in f" of CSharpParser.parse_functions
CSLine ==
    /\ lang = "cs" /\ pc = "loop" /\ line_num < Len(lines)
    /\ LET r == CSBody(lines[line_num + 1], line_num + 1, current_function,
                       pending_method, functions)
       IN /\ current_function' = r.current_function
          /\ pending_method' = r.pending_method
          /\ functions' = r.functions
    /\ line_num' = line_num + 1
    /\ UNCHANGED <<lang, lines, pc, i, j, paren_count, end_line, result>>
    /\ UNCHANGED <<writeVars, scanVars, mainVars>>

\* the end of "for line in f" of a brace parser, and its return
BraceReturn ==
    /\ lang \in {"js", "java", "cs"} /\ pc = "loop" /\ line_num = Len(lines)
    /\ pc' = "done"
    /\ result' = ReturnValue(functions, current_function, line_num)
    /\ UNCHANGED <<lang, lines, line_num, current_function, pending_method,
                   i, j, paren_count, end_line, functions>>
    /\ UNCHANGED <<writeVars, scanVars, mainVars>>

\* one iteration of "while i < len(lines)" up to the signature loop
PyScan ==
    /\ lang = "py" /\ pc = "scan" /\ i < Len(lines)
    /\ IF FUNC_PATTERN(lines[i + 1]) # None
       THEN /\ j' = i
            /\ paren_count' = 0
            /\ pc' = "sig"
            /\ UNCHANGED i
       ELSE /\ i' = i + 1
            /\ UNCHANGED <<j, paren_count, pc>>
    /\ UNCHANGED <<lang, lines, line_num, current_function, pending_method,
                   end_line, functions, result>>
    /\ UNCHANGED <<writeVars, scanVars, mainVars>>

\* one iteration of the signature loop; leaving it runs "j += 1; end_line = i"
PySig ==
    /\ lang = "py" /\ pc = "sig"
    /\ IF j < Len(lines)
       THEN LET paren == paren_count + ParenDelta(lines[j + 1])
            IN /\ paren_count' = paren
               /\ j' = j + 1
               /\ IF SigCloses(lines[j + 1], paren)
                  THEN pc' = "body" /\ end_line' = i
                  ELSE UNCHANGED <<pc, end_line>>
       ELSE /\ j' = j + 1
            /\ pc' = "body"
            /\ end_line' = i
            /\ UNCHANGED paren_count
    /\ UNCHANGED <<lang, lines, line_num, current_function, pending_method,
                   i, functions, result>>
    /\ UNCHANGED <<writeVars, scanVars, mainVars>>

\* one iteration of the body loop; leaving it appends the record and runs "i += 1"
PyBody ==
    /\ lang = "py" /\ pc = "body"
    /\ IF j < Len(lines) /\ Skipped(lines[j + 1])
       THEN /\ j' = j + 1
            /\ UNCHANGED <<end_line, functions, i, pc>>
       ELSE IF j < Len(lines) /\ ~BodyEnds(Indent(lines[j + 1]), Indent(lines[i + 1]))
       THEN /\ end_line' = j
            /\ j' = j + 1
            /\ UNCHANGED <<functions, i, pc>>
       ELSE /\ functions' =
                   IF end_line >= i
                   THEN Append(functions,
                               FunctionInfo(FUNC_PATTERN(lines[i + 1])[1], FilePath,
                                            i + 1, end_line + 1, end_line - i + 1))
                   ELSE functions
            /\ i' = i + 1
            /\ pc' = "scan"
            /\ UNCHANGED <<j, end_line>>
    /\ UNCHANGED <<lang, lines, line_num, current_function, pending_method,
                   paren_count, result>>
    /\ UNCHANGED <<writeVars, scanVars, mainVars>>

\* the end of "while i < len(lines)" and the return
PyReturn ==
    /\ lang = "py" /\ pc = "scan" /\ i >= Len(lines)
    /\ pc' = "done"
    /\ result' = ReturnValue(functions, None, Len(lines))
    /\ UNCHANGED <<lang, lines, line_num, current_function, pending_method,
                   i, j, paren_count, end_line, functions>>
    /\ UNCHANGED <<writeVars, scanVars, mainVars>>

\* open() or the read of the next line raises in a brace parser: the handler
\* prints a warning and the parser returns the list built so far
BraceReadError ==
    /\ lang \in {"js", "java", "cs"} /\ pc = "loop"
    /\ pc' = "error"
    /\ result' = ReturnValue(functions, current_function, line_num)
    /\ UNCHANGED <<lang, lines, line_num, current_function, pending_method,
                   i, j, paren_count, end_line, functions>>
    /\ UNCHANGED <<writeVars, scanVars, mainVars>>

\* open() or a read raises in PythonParser, which reads every line before it
\* processes the first: the handler prints a warning and the parser returns
PyReadError ==
    /\ lang = "py" /\ pc = "scan" /\ i = 0
    /\ pc' = "error"
    /\ result' = ReturnValue(functions, None, 0)
    /\ UNCHANGED <<lang, lines, line_num, current_function, pending_method,
                   i, j, paren_count, end_line, functions>>
    /\ UNCHANGED <<writeVars, scanVars, mainVars>>

ParseNext ==
    \/ JSLine \/ JavaLine \/ CSLine \/ BraceReturn \/ BraceReadError
    \/ PyScan \/ PySig \/ PyBody \/ PyReturn \/ PyReadError

SpecParse == ParseInit /\ [][ParseNext]_vars

\* ------------------------------------------------------------ the writers
\* Filtered keeping only the functions larger than min_size
Filtered_Strict(fs, minsize) == SelectSeq(fs, LAMBDA f : f.size > minsize)

\* [f for f in functions if f.size >= min_size]
Filtered(fs, minsize) == SelectSeq(fs, LAMBDA f : f.size >= minsize)

\* the place of f in a list sorted by size, descending: after the records that
\* are as large (sorted is stable, also with reverse=True)
RECURSIVE InsertDesc(_, _)
InsertDesc(done, f) ==
    IF done = <<>> THEN <<f>>
    ELSE IF Head(done).size >= f.size THEN <<Head(done)>> \o InsertDesc(Tail(done), f)
    ELSE <<f>> \o done

\* InsertDesc placing f before the records of its own size
RECURSIVE InsertDesc_Strict(_, _)
InsertDesc_Strict(done, f) ==
    IF done = <<>> THEN <<f>>
    ELSE IF Head(done).size > f.size
    THEN <<Head(done)>> \o InsertDesc_Strict(Tail(done), f)
    ELSE <<f>> \o done

\* a descending sort that reverses the order of records of equal size, as
\* reversing an ascending sort does
RECURSIVE sorted_TiesReversed(_)
sorted_TiesReversed(fs) ==
    IF fs = <<>> THEN <<>>
    ELSE InsertDesc_Strict(sorted_TiesReversed(SubSeq(fs, 1, Len(fs) - 1)), fs[Len(fs)])

\* sorted(fs, key=lambda f: f.size, reverse=True)
RECURSIVE sorted(_)
sorted(fs) ==
    IF fs = <<>> THEN <<>>
    ELSE InsertDesc(sorted(SubSeq(fs, 1, Len(fs) - 1)), fs[Len(fs)])

\* fs[:n], for n >= 0
Slice(fs, n) == SubSeq(fs, 1, IF n < Len(fs) THEN n ELSE Len(fs))

\* float('inf') and the integers it is compared with, as <<is infinite, value>>
inf == <<TRUE, 0>>
Finite(v) == <<FALSE, v>>
LessThan(v, x) == x[1] \/ v < x[2]
Value(x) == IF x[1] THEN "inf" ELSE x[2]

\* the single pass "for func in filtered_functions" of the summary statistics
RECURSIVE StatsLoop(_, _)
StatsLoop(fs, acc) ==
    IF fs = <<>> THEN acc
    ELSE LET func == Head(fs)
         IN StatsLoop(Tail(fs),
               [total_size |-> acc.total_size + func.size,
                smallest_size |-> IF LessThan(func.size, acc.smallest_size)
                                  THEN Finite(func.size) ELSE acc.smallest_size,
                largest_size |-> IF func.size > acc.largest_size
                                 THEN func.size ELSE acc.largest_size])

\* total_size = 0; smallest_size = float('inf'); largest_size = 0; the loop
Stats(fs) == StatsLoop(fs, [total_size |-> 0, smallest_size |-> inf, largest_size |-> 0])

\* total_size / total rounded to one decimal, in tenths: what ":.1f" and
\* round(x, 1) give (round half to even; exact for total <= 8)
RoundTenths(total_size, total) ==
    LET q == (10 * total_size) \div total
        r == (10 * total_size) % total
    IN IF 2 * r > total \/ (2 * r = total /\ q % 2 = 1) THEN q + 1 ELSE q

\* Excel's limit on the length of a sheet name
MaxSheetName == 31

\* SheetName that replaces '/' only
SheetName_SlashOnly(repo_name) ==
    LET replaced == [k \in 1..Len(repo_name) |->
                        IF repo_name[k] = "/" THEN "_" ELSE repo_name[k]]
    IN IF Len(replaced) > MaxSheetName THEN SubSeq(replaced, 1, MaxSheetName)
       ELSE replaced

\* repo_name.replace('/', '_').replace('\\', '_'), cut to 31 characters
SheetName(repo_name) ==
    LET replaced == [k \in 1..Len(repo_name) |->
                        IF repo_name[k] \in {"/", "\\"} THEN "_" ELSE repo_name[k]]
    IN IF Len(replaced) > MaxSheetName THEN SubSeq(replaced, 1, MaxSheetName)
       ELSE replaced

\* ExcelSheet that takes the first N filtered functions in input order
ExcelSheet_Unsorted(repo_name, fs, topn, minsize) ==
    LET filtered_functions == Filtered(fs, minsize)
        top_functions == Slice(filtered_functions, topn)
        st == Stats(filtered_functions)
        total == Len(filtered_functions)
    IN [title |-> SheetName(repo_name),
        headers |-> <<"Rank", "Function Name", "File Path", "Start Line",
                      "End Line", "Lines of Code">>,
        rows |-> [rank \in 1..Len(top_functions) |->
                     [rank |-> rank,
                      name |-> top_functions[rank].name,
                      file_path |-> top_functions[rank].file_path,
                      start_line |-> top_functions[rank].start_line,
                      end_line |-> top_functions[rank].end_line,
                      size |-> top_functions[rank].size]],
        summary |-> IF filtered_functions # <<>>
                    THEN [total_functions_found |-> total,
                          average_function_size |->
                              <<RoundTenths(st.total_size, total), "lines">>,
                          largest_function |-> st.largest_size,
                          smallest_function |-> Value(st.smallest_size)]
                    ELSE None]

\* the sheet ExcelWriter.write_results builds for one repository
ExcelSheet(repo_name, fs, topn, minsize) ==
    LET filtered_functions == Filtered(fs, minsize)
        top_functions == Slice(sorted(filtered_functions), topn)
        st == Stats(filtered_functions)
        total == Len(filtered_functions)
    IN [title |-> SheetName(repo_name),
        headers |-> <<"Rank", "Function Name", "File Path", "Start Line",
                      "End Line", "Lines of Code">>,
        rows |-> [rank \in 1..Len(top_functions) |->
                     [rank |-> rank,
                      name |-> top_functions[rank].name,
                      file_path |-> top_functions[rank].file_path,
                      start_line |-> top_functions[rank].start_line,
                      end_line |-> top_functions[rank].end_line,
                      size |-> top_functions[rank].size]],
        summary |-> IF filtered_functions # <<>>
                    THEN [total_functions_found |-> total,
                          average_function_size |->
                              <<RoundTenths(st.total_size, total), "lines">>,
                          largest_function |-> st.largest_size,
                          smallest_function |-> Value(st.smallest_size)]
                    ELSE None]

\* JSONEntry with the statistics computed over the top-N list
JSONEntry_StatsOverTop(fs, topn, minsize) ==
    LET filtered_functions == Filtered(fs, minsize)
        top_functions == Slice(sorted(filtered_functions), topn)
        st == Stats(top_functions)
        total == Len(top_functions)
    IN [summary |-> IF filtered_functions # <<>>
                    THEN [total_functions |-> total,
                          average_size |-> RoundTenths(st.total_size, total),
                          largest_function_size |-> st.largest_size,
                          smallest_function_size |-> Value(st.smallest_size)]
                    ELSE None,
        top_functions |-> top_functions]

\* the entry JSONWriter.write_results builds for one repository
JSONEntry(fs, topn, minsize) ==
    LET filtered_functions == Filtered(fs, minsize)
        top_functions == Slice(sorted(filtered_functions), topn)
        st == Stats(filtered_functions)
        total == Len(filtered_functions)
    IN [summary |-> IF filtered_functions # <<>>
                    THEN [total_functions |-> total,
                          average_size |-> RoundTenths(st.total_size, total),
                          largest_function_size |-> st.largest_size,
                          smallest_function_size |-> Value(st.smallest_size)]
                    ELSE None,
        top_functions |-> top_functions]

\* ---------------------------------------------------- the results written
\* repository names, as sequences of characters
RepoNames ==
    { <<"a", "p", "p">>,
      <<"o", "r", "g", "/", "a", "p", "p">>,
      [k \in 1..MaxSheetName + 2 |-> IF k = 2 THEN "\\" ELSE "r"] }

\* the sum of the first k elements of sizes
RECURSIVE SumUpTo(_, _)
SumUpTo(sizes, k) == IF k = 0 THEN 0 ELSE SumUpTo(sizes, k - 1) + sizes[k]

\* the records of functions of the given sizes that follow one another in a file
FunctionsOfSizes(sizes) ==
    [k \in 1..Len(sizes) |->
        FunctionInfo("fn", "src/file", SumUpTo(sizes, k - 1) + 1,
                     SumUpTo(sizes, k), sizes[k])]

FunctionLists ==
    {FunctionsOfSizes(sizes) : sizes \in UNION {[1..n -> 1..MaxSize] : n \in 0..MaxFuncs}}

\* the sum of the lengths of the lists of d
RECURSIVE TotalLen(_, _)
TotalLen(d, names) ==
    IF names = {} THEN 0
    ELSE LET nm == CHOOSE x \in names : TRUE
         IN Len(d[nm]) + TotalLen(d, names \ {nm})

\* results of one or two repositories with MaxFuncs functions at most
RepoResults ==
    {d \in UNION {[D -> FunctionLists] :
                     D \in {D \in SUBSET RepoNames : Cardinality(D) \in {1, 2}}} :
        TotalLen(d, DOMAIN d) <= MaxFuncs}

\* no parser runs
ParseIdle ==
    /\ lang = "none"
    /\ lines = <<>>
    /\ pc = "idle"
    /\ line_num = 0
    /\ current_function = None
    /\ pending_method = None
    /\ i = 0
    /\ j = 0
    /\ paren_count = 0
    /\ end_line = 0
    /\ functions = <<>>
    /\ result = <<>>

WriteInit ==
    /\ repo_results \in RepoResults
    /\ top_n \in 1..MaxTopN
    /\ min_size \in 1..MaxMinSize
    /\ excel_out = None
    /\ json_out = None
    /\ ParseIdle
    /\ ScanIdle
    /\ MainIdle

\* ExcelWriter.write_results
ExcelWrite ==
    /\ excel_out' = [repo_name \in DOMAIN repo_results |->
                        ExcelSheet(repo_name, repo_results[repo_name], top_n, min_size)]
    /\ UNCHANGED <<repo_results, top_n, min_size, json_out>>
    /\ UNCHANGED <<parseVars, scanVars, mainVars>>

\* JSONWriter.write_results
JSONWrite ==
    /\ json_out' = [repo_name \in DOMAIN repo_results |->
                       JSONEntry(repo_results[repo_name], top_n, min_size)]
    /\ UNCHANGED <<repo_results, top_n, min_size, excel_out>>
    /\ UNCHANGED <<parseVars, scanVars, mainVars>>

WriteNext == ExcelWrite \/ JSONWrite

SpecWrite == WriteInit /\ [][WriteNext]_vars



\* ------------------------------------------------ scan_single_repository
\* A path or URL is the sequence of its components, as split('/') gives them,
\* and a component is a sequence of tokens: "/work/lib" is
\* <<<<>>, <<"work">>, <<"lib">>>> and "app.git" is <<"app", ".git">>.

\* the largest number of files below a repository root
MaxFiles == 3

SKIP_DIRS ==
    {"node_modules", ".git", "target", "build", "out", "__pycache__", "venv",
     "env", ".venv", "site-packages", "dist", "coverage", ".tox",
     ".pytest_cache", ".mypy_cache"}

\* js_extensions, then the patterns of the Java, Python and C# loops
Extensions == <<".js", ".jsx", ".ts", ".tsx", ".mjs", ".java", ".py", ".cs">>

\* repo_path.startswith(('http://', 'https://', 'git@'))
IsRemote(path) ==
    \/ Len(path) >= 3 /\ path[1] \in {<<"http:">>, <<"https:">>} /\ path[2] = <<>>
    \/ Len(path) >= 1 /\ path[1] # <<>> /\ path[1][1] = "git@"

\* the directory tempfile.mkdtemp(prefix='function_calculator_') creates
TempDir == <<<<>>, <<"tmp">>, <<"function_calculator_", "x">>>>

\* Path(path).parts: the anchor '/' of an absolute path, then its components
parts(path) ==
    (IF path # <<>> /\ path[1] = <<>> THEN <<<<"/">>>> ELSE <<>>)
        \o SelectSeq(path, LAMBDA c : c # <<>>)

\* the parts of the path rglob yields for the file f below local
file_parts(local, f) == parts(local) \o f.dirs \o <<f.name>>

\* rglob(f'*{ext}') yields f
Matches(f, ext) == f.name[Len(f.name)] = ext

\* any(part in SKIP_DIRS for part in file_path.parts)
InSkipDirs(ps) == \E k \in 1..Len(ps) : ps[k] \in {<<d>> : d \in SKIP_DIRS}

\* the working directory of the process
Cwd == <<<<"/">>, <<"home">>>>

\* os.path.abspath on parts
abspath(ps) == IF ps # <<>> /\ ps[1] = <<"/">> THEN ps ELSE Cwd \o ps

\* os.path.relpath(path, start) on absolute parts that leaves the path as it is
relpath_Absolute(path, start) == abspath(path)

\* os.path.relpath(path, start) on parts: '..' for every component of start
\* after the common prefix, then the rest of path
relpath(path, start) ==
    LET a == abspath(path)
        b == abspath(start)
        c == Max({k \in 0..Min({Len(a), Len(b)}) : SubSeq(a, 1, k) = SubSeq(b, 1, k)})
        rel == [k \in 1..Len(b) - c |-> <<"..">>] \o SubSeq(a, c + 1, Len(a))
    IN IF rel = <<>> THEN <<<<".">>>> ELSE rel

\* what the parser of the file f returns when called with the path ps: the
\* records of the functions of f, one after another, each carrying ps
parse_functions(f, ps) ==
    [k \in 1..Len(f.sizes) |->
        FunctionInfo("fn", ps, SumUpTo(f.sizes, k - 1) + 1,
                     SumUpTo(f.sizes, k), f.sizes[k])]

\* Relativised that numbers the lines of every record from the start of its
\* function as well
Relativised_Renumbered(fs, local) ==
    [k \in 1..Len(fs) |->
        FunctionInfo(fs[k].name, relpath(fs[k].file_path, parts(local)),
                     1, fs[k].size, fs[k].size)]

\* "for func in functions: func.file_path = os.path.relpath(func.file_path, local_path)"
Relativised(fs, local) ==
    [k \in 1..Len(fs) |->
        FunctionInfo(fs[k].name, relpath(fs[k].file_path, parts(local)),
                     fs[k].start_line, fs[k].end_line, fs[k].size)]

\* s.rstrip('/')
RECURSIVE rstrip_slash(_)
rstrip_slash(path) ==
    IF path # <<>> /\ path[Len(path)] = <<>>
    THEN rstrip_slash(SubSeq(path, 1, Len(path) - 1))
    ELSE path

\* s.replace('.git', '')
replace_git(path) ==
    [k \in 1..Len(path) |-> SelectSeq(path[k], LAMBDA t : t # ".git")]

\* os.path.basename
basename(path) == IF path = <<>> THEN <<>> ELSE path[Len(path)]

\* repo_name of lines 562-564
RepoName(path) ==
    LET repo_name == basename(replace_git(rstrip_slash(path)))
    IN IF repo_name = <<>> THEN <<"repository">> ELSE repo_name

\* local_path of lines 503-507 without the test of os.path.exists
LocalPathOf_Unchecked(path, exists) == path

\* local_path of lines 503-507, None when the function returns instead
LocalPathOf(path, exists) == IF exists THEN path ELSE None

\* the finally clause without the cleanup
Finally_NoCleanup(tmp, exists) == exists

\* the finally clause: whether the temporary directory exists after it
Finally(tmp, exists) == IF tmp # None /\ exists THEN FALSE ELSE exists

Locators ==
    { <<<<"https:">>, <<>>, <<"a">>, <<"x">>, <<"app", ".git">>>>,
      <<<<"https:">>, <<>>, <<"b">>, <<"y">>, <<"app">>>>,
      <<<<"git@", "h:x">>, <<"cli", ".git">>>>,
      <<<<>>, <<"work">>, <<"lib">>>>,
      <<<<>>, <<"work">>, <<"build">>, <<"web">>, <<>>>>,
      <<<<"svc">>>>,
      <<<<>>, <<"work">>, <<".git">>>> }

CloneOutcomes == {"ok", "failed", "timeout", "error"}

\* the files a repository may hold
FileNames ==
    { [dirs |-> <<>>, name |-> <<"main", ".py">>, sizes |-> <<2, 1>>],
      [dirs |-> <<<<"src">>>>, name |-> <<"a", ".js">>, sizes |-> <<3>>],
      [dirs |-> <<<<"node_modules">>>>, name |-> <<"b", ".js">>, sizes |-> <<1>>],
      [dirs |-> <<<<"src">>, <<"build">>>>, name |-> <<"C", ".java">>, sizes |-> <<2>>],
      [dirs |-> <<<<"svc">>>>, name |-> <<"d", ".cs">>, sizes |-> <<2>>],
      [dirs |-> <<>>, name |-> <<"notes", ".txt">>, sizes |-> <<>>] }

Trees == {t \in SUBSET FileNames : Cardinality(t) <= MaxFiles}

\* no parser, no writer
ScanInit ==
    /\ repo_path \in Locators
    /\ path_exists \in (IF IsRemote(repo_path) THEN {FALSE} ELSE BOOLEAN)
    /\ clone_outcome \in (IF IsRemote(repo_path) THEN CloneOutcomes ELSE {"none"})
    /\ tree \in (IF ~IsRemote(repo_path) /\ ~path_exists THEN {{}} ELSE Trees)
    /\ spc = "start"
    /\ temp_dir = None
    /\ temp_exists = FALSE
    /\ clones = 0
    /\ local_path = None
    /\ ext_idx = 0
    /\ visited = {}
    /\ scanned = <<>>
    /\ all_functions = <<>>
    /\ scan_ret = None
    /\ ParseIdle
    /\ WriteIdle
    /\ MainIdle

\* lines 478-507: the clone of a remote locator or the test of a local one, with
\* the returns of the failures and the finally clause they run
ScanLocate ==
    /\ spc = "start"
    /\ IF IsRemote(repo_path)
       THEN /\ temp_dir' = TempDir
            /\ clones' = clones + 1
            /\ CASE clone_outcome = "ok" ->
                      /\ local_path' = TempDir
                      /\ temp_exists' = TRUE
                      /\ spc' = "walk"
                      /\ ext_idx' = 1
                      /\ UNCHANGED scan_ret
                 [] clone_outcome \in {"failed", "timeout"} ->
                      /\ scan_ret' = <<None, <<>>>>
                      /\ temp_exists' = Finally(TempDir, TRUE)
                      /\ spc' = "returned"
                      /\ UNCHANGED <<local_path, ext_idx>>
                 [] OTHER ->
                      /\ temp_exists' = Finally(TempDir, TRUE)
                      /\ spc' = "raised"
                      /\ UNCHANGED <<local_path, ext_idx, scan_ret>>
       ELSE LET path == LocalPathOf(repo_path, path_exists)
            IN /\ IF path # None
                  THEN /\ local_path' = path
                       /\ spc' = "walk"
                       /\ ext_idx' = 1
                       /\ UNCHANGED <<scan_ret, temp_exists>>
                  ELSE /\ scan_ret' = <<None, <<>>>>
                       /\ temp_exists' = Finally(temp_dir, temp_exists)
                       /\ spc' = "returned"
                       /\ UNCHANGED <<local_path, ext_idx>>
               /\ UNCHANGED <<temp_dir, clones>>
    /\ UNCHANGED <<repo_path, path_exists, clone_outcome, tree, visited, scanned,
                   all_functions>>
    /\ UNCHANGED <<parseVars, writeVars, mainVars>>

\* one iteration of the rglob loop that runs: the skip test, the parser, the
\* relative paths and all_functions.extend
ScanFile ==
    /\ spc = "walk"
    /\ \E f \in tree \ visited :
          /\ Matches(f, Extensions[ext_idx])
          /\ visited' = visited \cup {f}
          /\ IF InSkipDirs(file_parts(local_path, f))
             THEN UNCHANGED <<scanned, all_functions>>
             ELSE /\ scanned' = Append(scanned, f)
                  /\ all_functions' = all_functions \o
                        Relativised(parse_functions(f, file_parts(local_path, f)),
                                    local_path)
    /\ UNCHANGED <<repo_path, path_exists, clone_outcome, tree, spc, temp_dir,
                   temp_exists, clones, local_path, ext_idx, scan_ret>>
    /\ UNCHANGED <<parseVars, writeVars, mainVars>>

\* the rglob loop that runs is exhausted and the next one starts
ScanNextExt ==
    /\ spc = "walk"
    /\ ext_idx < Len(Extensions)
    /\ \A f \in tree \ visited : ~Matches(f, Extensions[ext_idx])
    /\ ext_idx' = ext_idx + 1
    /\ UNCHANGED <<repo_path, path_exists, clone_outcome, tree, spc, temp_dir,
                   temp_exists, clones, local_path, visited, scanned,
                   all_functions, scan_ret>>
    /\ UNCHANGED <<parseVars, writeVars, mainVars>>

\* lines 561-571: the last loop is exhausted; the name, the return and the
\* finally clause
ScanReturn ==
    /\ spc = "walk"
    /\ ext_idx = Len(Extensions)
    /\ \A f \in tree \ visited : ~Matches(f, Extensions[ext_idx])
    /\ scan_ret' = <<RepoName(repo_path), all_functions>>
    /\ temp_exists' = Finally(temp_dir, temp_exists)
    /\ spc' = "returned"
    /\ UNCHANGED <<repo_path, path_exists, clone_outcome, tree, temp_dir, clones,
                   local_path, ext_idx, visited, scanned, all_functions>>
    /\ UNCHANGED <<parseVars, writeVars, mainVars>>

\* an exception raised while the files are walked leaves through the finally
\* clause
ScanRaise ==
    /\ spc = "walk"
    /\ temp_exists' = Finally(temp_dir, temp_exists)
    /\ spc' = "raised"
    /\ UNCHANGED <<repo_path, path_exists, clone_outcome, tree, temp_dir, clones,
                   local_path, ext_idx, visited, scanned, all_functions, scan_ret>>
    /\ UNCHANGED <<parseVars, writeVars, mainVars>>

ScanNext == ScanLocate \/ ScanFile \/ ScanNextExt \/ ScanReturn \/ ScanRaise

SpecScan == ScanInit /\ [][ScanNext]_vars



\* ------------------------------------------------------------------- main
\* the largest number of repositories of a run and the largest --jobs
MaxRepos == 3
MaxJobs == 2

\* output_format of lines 782-791, "exit" where main exits
DetectFormat(fmt, out) ==
    IF fmt = "auto"
    THEN IF out = ".json" THEN "json"
         ELSE IF out = ".xlsx" THEN "xlsx"
         ELSE "exit"
    ELSE fmt

\* the validation without the test of args.min_size
Validate_NoMinSize(nj, tn, ms, fmt, out) ==
    IF nj < 1 THEN "exit"
    ELSE IF tn < 1 THEN "exit"
    ELSE LET of == DetectFormat(fmt, out)
         IN IF of = "xlsx" /\ out # ".xlsx" THEN "exit"
            ELSE IF of = "json" /\ out # ".json" THEN "exit"
            ELSE of

\* lines 767-799: output_format, or "exit" where main calls sys.exit(1)
Validate(nj, tn, ms, fmt, out) ==
    IF nj < 1 THEN "exit"
    ELSE IF tn < 1 THEN "exit"
    ELSE IF ms < 1 THEN "exit"
    ELSE LET of == DetectFormat(fmt, out)
         IN IF of = "xlsx" /\ out # ".xlsx" THEN "exit"
            ELSE IF of = "json" /\ out # ".json" THEN "exit"
            ELSE of

\* the locators of a run: two of the same last component and two of others
Repositories ==
    {path \in Locators : RepoName(path) \in {<<"app">>, <<"lib">>, <<"cli">>}}

\* lists of distinct locators
RepositoryLists ==
    {q \in UNION {[1..n -> Repositories] : n \in 0..MaxRepos} :
        \A a, b \in 1..Len(q) : a # b => q[a] # q[b]}

\* the records of the repository at path: one function in a repository whose
\* locator ends in a bare name, two in one whose locator ends in ".git"
RecordsOf(path) == FunctionsOfSizes([k \in 1..Len(basename(path)) |-> k])

\* how a call scan_single_repository(path) in a worker may end: it returns a
\* name and records, returns (None, []), or raises
Outcomes(path) ==
    {[raised |-> FALSE, ret |-> <<RepoName(path), RecordsOf(path)>>],
     [raised |-> FALSE, ret |-> <<None, <<>>>>],
     [raised |-> TRUE, ret |-> None]}

\* d[key] = value of a dict
Put(d, key, value) ==
    [n \in DOMAIN d \cup {key} |-> IF n = key THEN value ELSE d[n]]

\* the number of tasks that run in a worker process
Running == Cardinality({k \in 1..Len(futures) : futures[k].state = "running"})

MainInit ==
    /\ jobs \in 0..MaxJobs
    /\ top_n \in 0..1
    /\ min_size \in 0..1
    /\ output \in {".xlsx", ".json", ".txt"}
    /\ format \in {"auto", "xlsx", "json"}
    /\ input_file \in {"ok", "missing"}
    /\ repositories \in RepositoryLists
    /\ mpc = "validate"
    /\ output_format = "unset"
    /\ futures = <<>>
    /\ completed_count = 0
    /\ writer_calls = <<>>
    /\ repo_results = <<>>
    /\ excel_out = None
    /\ json_out = None
    /\ ParseIdle
    /\ ScanIdle

\* lines 767-799: the validation of the options
MainValidate ==
    /\ mpc = "validate"
    /\ LET of == Validate(jobs, top_n, min_size, format, output)
       IN IF of = "exit"
          THEN mpc' = "error" /\ UNCHANGED output_format
          ELSE mpc' = "collect" /\ output_format' = of
    /\ UNCHANGED <<writer_calls, jobs, output, format, input_file,
                   repositories, futures,
                   completed_count>>
    /\ UNCHANGED <<parseVars, writeVars, scanVars>>

\* lines 801-829: the list of repositories; main exits when the input file
\* cannot be read or the list is empty
MainCollect ==
    /\ mpc = "collect"
    /\ IF input_file = "missing" \/ repositories = <<>>
       THEN mpc' = "error" /\ UNCHANGED <<repo_results, completed_count>>
       ELSE mpc' = "submit" /\ repo_results' = <<>> /\ completed_count' = 0
    /\ UNCHANGED <<writer_calls, jobs, output, format, input_file,
                   repositories,
                   output_format, futures>>
    /\ UNCHANGED <<top_n, min_size, excel_out, json_out>>
    /\ UNCHANGED <<parseVars, scanVars>>

\* lines 835-838: one task per repository is submitted to the executor
MainSubmit ==
    /\ mpc = "submit"
    /\ futures' = [k \in 1..Len(repositories) |->
                      [state |-> "pending", raised |-> FALSE, ret |-> None]]
    /\ mpc' = "loop"
    /\ UNCHANGED <<writer_calls, jobs, output, format, input_file,
                   repositories,
                   output_format, completed_count>>
    /\ UNCHANGED <<parseVars, writeVars, scanVars>>

\* a free worker process of the pool takes the oldest pending task
WorkerStart ==
    /\ mpc = "loop"
    /\ Running < jobs
    /\ \E k \in 1..Len(futures) :
          /\ futures[k].state = "pending"
          /\ \A m \in 1..k - 1 : futures[m].state # "pending"
          /\ futures' = [futures EXCEPT ![k].state = "running"]
    /\ UNCHANGED <<writer_calls, jobs, output, format, input_file,
                   repositories, mpc,
                   output_format, completed_count>>
    /\ UNCHANGED <<parseVars, writeVars, scanVars>>

\* scan_single_repository ends in a worker process
WorkerFinish ==
    /\ mpc = "loop"
    /\ \E k \in 1..Len(futures) :
          /\ futures[k].state = "running"
          /\ \E o \in Outcomes(repositories[k]) :
                futures' = [futures EXCEPT ![k] =
                               [state |-> "finished", raised |-> o.raised,
                                ret |-> o.ret]]
    /\ UNCHANGED <<writer_calls, jobs, output, format, input_file,
                   repositories, mpc,
                   output_format, completed_count>>
    /\ UNCHANGED <<parseVars, writeVars, scanVars>>

\* lines 841-881: one iteration of "for future in as_completed(...)"
MainResult ==
    /\ mpc = "loop"
    /\ \E k \in 1..Len(futures) :
          /\ futures[k].state = "finished"
          /\ futures' = [futures EXCEPT ![k].state = "collected"]
          /\ IF futures[k].raised
             THEN /\ completed_count' = completed_count + 1
                  /\ UNCHANGED repo_results
             ELSE IF futures[k].ret[1] # None
             THEN /\ repo_results' =
                        Put(repo_results, futures[k].ret[1], futures[k].ret[2])
                  /\ completed_count' = completed_count + 1
             ELSE UNCHANGED <<repo_results, completed_count>>
    /\ UNCHANGED <<writer_calls, jobs, output, format, input_file,
                   repositories, mpc,
                   output_format>>
    /\ UNCHANGED <<top_n, min_size, excel_out, json_out>>
    /\ UNCHANGED <<parseVars, scanVars>>

\* the loop "for future in as_completed(...)" that ends after its first iteration
Exhausted_Early(fs) == \E k \in 1..Len(fs) : fs[k].state = "collected"

\* as_completed yields a future while one is finished and not yet processed
\* and ends once every future was yielded
Exhausted(fs) == \A k \in 1..Len(fs) : fs[k].state = "collected"

\* "if repo_results:" that is always taken
HasResults_Always(d) == TRUE

\* "if repo_results:"
HasResults(d) == DOMAIN d # {}

\* lines 884-895: the loop is over; the results are written if there are any
MainWrite ==
    /\ mpc = "loop"
    /\ Exhausted(futures)
    /\ IF HasResults(repo_results)
       THEN IF output_format = "json"
            THEN /\ writer_calls' = Append(writer_calls, "json")
                 /\ json_out' = [repo_name \in DOMAIN repo_results |->
                                    JSONEntry(repo_results[repo_name], top_n, min_size)]
                 /\ UNCHANGED excel_out
            ELSE /\ writer_calls' = Append(writer_calls, "xlsx")
                 /\ excel_out' = [repo_name \in DOMAIN repo_results |->
                                     ExcelSheet(repo_name, repo_results[repo_name],
                                                top_n, min_size)]
                 /\ UNCHANGED json_out
       ELSE UNCHANGED <<excel_out, json_out, writer_calls>>
    /\ mpc' = "done"
    /\ UNCHANGED <<jobs, output, format, input_file, repositories,
                   output_format, futures, completed_count>>
    /\ UNCHANGED <<repo_results, top_n, min_size>>
    /\ UNCHANGED <<parseVars, scanVars>>

MainNext ==
    \/ MainValidate \/ MainCollect \/ MainSubmit \/ WorkerStart \/ WorkerFinish
    \/ MainResult \/ MainWrite

SpecMain == MainInit /\ [][MainNext]_vars


\* ------------------------------------------------------------------------
\* Properties of the parsers
\* ------------------------------------------------------------------------
BraceLangs == {"js", "java", "cs"}

\* the header match of the running brace parser
HeaderMatch(line) ==
    CASE lang = "js" -> JSMatch(line)
      [] lang = "java" -> JavaMatch(line)
      [] lang = "cs" -> CSMatch(line)
      [] OTHER -> None

\* the running sum of the net brace counts of lines s..e (1-indexed)
RECURSIVE BraceSum(_, _)
BraceSum(s, e) == IF e < s THEN 0 ELSE BraceSum(s, e - 1) + BraceDelta(lines[e])

\* the line at which the brace parser started counting for the record or
\* candidate that starts at line s: the header line, or for a C# declaration
\* without '{' the first line after it that is a lone '{'
TrackStart(s) ==
    IF lang = "cs" /\ ~In("{", lines[s])
    THEN LET S == {k \in s + 1..Len(lines) : strip(lines[k]) = <<"{">>}
         IN IF S = {} THEN Len(lines) + 1 ELSE Min(S)
    ELSE s

\* C1: every record a parser produces has start_line >= 1, end_line >= start_line
\* and size = end_line - start_line + 1.
C1_RecordShape ==
    \A k \in 1..Len(functions) :
        /\ functions[k].start_line >= 1
        /\ functions[k].end_line >= functions[k].start_line
        /\ functions[k].size = functions[k].end_line - functions[k].start_line + 1

\* a parser has returned a record of several lines and a record of one line
C1_Witness ==
    /\ pc = "done"
    /\ Len(result) >= 2
    /\ \E k \in 1..Len(result) : result[k].size >= 3
    /\ \E k \in 1..Len(result) : result[k].size = 1

\* C2: in the JavaScript and Java parsers, a header line read while no function is
\* tracked whose net brace count is zero appends exactly one record, with
\* start_line = end_line = that line and size 1, and leaves no function tracked.
C2_SingleLine ==
    [][(/\ lang \in {"js", "java"}
        /\ pc = "loop"
        /\ line_num < Len(lines)
        /\ line_num' = line_num + 1
        /\ current_function = None
        /\ HeaderMatch(lines[line_num + 1]) # None
        /\ BraceDelta(lines[line_num + 1]) = 0)
       => (/\ Len(functions') = Len(functions) + 1
           /\ SubSeq(functions', 1, Len(functions)) = functions
           /\ functions'[Len(functions')].start_line = line_num + 1
           /\ functions'[Len(functions')].end_line = line_num + 1
           /\ functions'[Len(functions')].size = 1
           /\ functions'[Len(functions')].name = HeaderMatch(lines[line_num + 1])[1]
           /\ current_function' = None)]_vars

\* a one-line function has just been recorded by the Java parser
C2_Witness ==
    /\ lang = "java"
    /\ line_num >= 1
    /\ HeaderMatch(lines[line_num]) # None
    /\ BraceDelta(lines[line_num]) = 0
    /\ functions # <<>>
    /\ functions[Len(functions)].start_line = line_num
    /\ functions[Len(functions)].size = 1
    /\ current_function = None

\* C3: a function tracked from its header line s ends at the first line e > s at
\* which the running brace sum over s..e is exactly zero; a sum below zero does
\* not end it.
C3_EndAtFirstZero ==
    /\ \A k \in 1..Len(functions) :
          LET s == functions[k].start_line
              e == functions[k].end_line
          IN (lang \in BraceLangs /\ e > s /\ TrackStart(s) = s)
             => /\ BraceSum(s, e) = 0
                /\ \A m \in s + 1..e - 1 : BraceSum(s, m) # 0
    /\ (lang \in BraceLangs /\ current_function # None
           /\ TrackStart(current_function[2]) = current_function[2])
       => /\ current_function[3] = BraceSum(current_function[2], line_num)
          /\ \A m \in current_function[2] + 1..line_num :
                BraceSum(current_function[2], m) # 0

\* a recorded function whose running sum was below zero on the way
C3_Witness ==
    /\ lang \in BraceLangs
    /\ \E k \in 1..Len(functions) :
          LET s == functions[k].start_line
              e == functions[k].end_line
          IN /\ TrackStart(s) = s
             /\ \E m \in s + 1..e - 1 : BraceSum(s, m) < 0

\* C4: a function still tracked at the end of the file produces no record: the
\* returned list holds only functions whose closing line was read.
C4_UnclosedDiscarded ==
    (lang \in BraceLangs /\ pc = "done")
    => /\ \A k \in 1..Len(result) :
             /\ result[k].end_line <= Len(lines)
             /\ TrackStart(result[k].start_line) <= result[k].end_line
             /\ BraceSum(TrackStart(result[k].start_line), result[k].end_line) = 0
       /\ current_function # None
          => \A k \in 1..Len(result) : result[k].end_line < current_function[2]

\* the file ended with a function open, after another one was recorded
C4_Witness ==
    /\ lang \in BraceLangs
    /\ pc = "done"
    /\ current_function # None
    /\ current_function[2] < Len(lines)
    /\ result # <<>>

\* C5: the records of a brace parser have pairwise disjoint line ranges in
\* strictly increasing order, all before the function being tracked, so a header
\* inside an open function is never recorded.
C5_DisjointIncreasing ==
    lang \in BraceLangs
    => /\ \A k \in 2..Len(functions) :
             functions[k].start_line > functions[k - 1].end_line
       /\ current_function # None
          => \A k \in 1..Len(functions) :
                functions[k].end_line < current_function[2]
       /\ \A k \in 1..Len(functions) :
             \A m \in functions[k].start_line + 1..functions[k].end_line :
                \A k2 \in 1..Len(functions) : functions[k2].start_line # m

\* a record that holds a nested header line, followed by a second record
C5_Witness ==
    /\ lang \in BraceLangs
    /\ Len(functions) >= 2
    /\ \E m \in functions[1].start_line + 1..functions[1].end_line :
          HeaderMatch(lines[m]) # None

\* the running sum of the net paren counts of lines i0..k0 (0-indexed)
RECURSIVE ParenSum(_, _)
ParenSum(i0, k0) ==
    IF k0 < i0 THEN 0 ELSE ParenSum(i0, k0 - 1) + ParenDelta(lines[k0 + 1])

\* line k0 has a colon and the paren balance over lines i0..k0 is zero (0-indexed)
ClosesAt(i0, k0) == ParenSum(i0, k0) = 0 /\ In(":", lines[k0 + 1])

\* the first line at or after i0 that closes the signature of the header at i0,
\* Len(lines) when there is none (0-indexed)
SigEnd(i0) ==
    LET S == {k0 \in i0..Len(lines) - 1 : ClosesAt(i0, k0)}
    IN IF S = {} THEN Len(lines) ELSE Min(S)

\* C6: the signature of the header at line i closes at the first line j >= i with
\* zero running paren balance over i..j and a colon; no other line closes it, and
\* the body scan starts at the line after it.
C6_SignatureClose ==
    [][(lang = "py" /\ pc = "sig")
       => /\ pc' = "body" => j' = SigEnd(i) + 1
          /\ (pc' = "sig" /\ j' # j) => (j < SigEnd(i) /\ ~ClosesAt(i, j))]_vars

\* the body scan is about to start after a signature of three lines or more, one
\* of them with a colon inside the open parentheses
C6_Witness ==
    /\ lang = "py"
    /\ pc = "body"
    /\ SigEnd(i) < Len(lines)
    /\ j = SigEnd(i) + 1
    /\ SigEnd(i) >= i + 2
    /\ \E k0 \in i..SigEnd(i) - 1 : In(":", lines[k0 + 1])

\* line m0 is neither blank nor a comment (0-indexed)
Substantive(m0) == ~Skipped(lines[m0 + 1])

\* the first substantive line after the signature of the header at line i0 that
\* is indented no deeper than the header, Len(lines) when there is none (0-indexed)
Terminator(i0) ==
    LET T == {t0 \in SigEnd(i0) + 1..Len(lines) - 1 :
                 Substantive(t0) /\ Indent(lines[t0 + 1]) <= Indent(lines[i0 + 1])}
    IN IF T = {} THEN Len(lines) ELSE Min(T)

\* the substantive lines scanned after the signature of the header at line i0
BodySeen(i0) == {m0 \in SigEnd(i0) + 1..Terminator(i0) - 1 : Substantive(m0)}

\* the closest substantive line before the terminator of the header at line i0
\* (0-indexed); the header line itself is substantive
IndentEnd(i0) == Max({m0 \in i0..Terminator(i0) - 1 : Substantive(m0)})

\* C7: a Python function whose signature closes ends at the closest substantive
\* line before the first substantive line indented no deeper than its header,
\* also when the signature spans several lines and no line after it is indented
\* deeper than the header; when the file ends first, it ends at the last
\* substantive line seen.
C7_IndentEnd ==
    lang = "py"
    => \A k \in 1..Len(functions) :
          LET i0 == functions[k].start_line - 1
          IN SigEnd(i0) < Len(lines)
             => /\ Terminator(i0) < Len(lines)
                   => functions[k].end_line = IndentEnd(i0) + 1
                /\ (Terminator(i0) = Len(lines) /\ BodySeen(i0) # {})
                   => functions[k].end_line = Max(BodySeen(i0)) + 1

\* C7 for the functions that have a line indented deeper than the header after
\* the signature, or whose signature is the header line alone
C7_IndentEndWithBody ==
    lang = "py"
    => \A k \in 1..Len(functions) :
          LET i0 == functions[k].start_line - 1
          IN (SigEnd(i0) < Len(lines)
                 /\ (SigEnd(i0) = i0 \/ functions[k].end_line > functions[k].start_line))
             => functions[k].end_line = IndentEnd(i0) + 1

\* ------------------------------------------------------------------------
\* Properties of the writers
\* ------------------------------------------------------------------------
\* the place in the input list fs of the record a row or entry r was made from
IndexIn(fs, r) ==
    CHOOSE k \in 1..Len(fs) :
        /\ fs[k].name = r.name
        /\ fs[k].file_path = r.file_path
        /\ fs[k].start_line = r.start_line
        /\ fs[k].end_line = r.end_line
        /\ fs[k].size = r.size

\* r was made from a record of fs
FromInput(fs, r) ==
    \E k \in 1..Len(fs) :
        /\ fs[k].name = r.name
        /\ fs[k].file_path = r.file_path
        /\ fs[k].start_line = r.start_line
        /\ fs[k].end_line = r.end_line
        /\ fs[k].size = r.size

\* the top-N lists written for repository nm: the rows of its sheet, the
\* top_functions of its entry
TopLists(nm) ==
    (IF excel_out # None THEN {excel_out[nm].rows} ELSE {})
    \cup (IF json_out # None THEN {json_out[nm].top_functions} ELSE {})

\* the places of fs whose record has size >= min_size
Selected(fs) == {k \in 1..Len(fs) : fs[k].size >= min_size}

\* top is in non-increasing order of size, records of equal size in the order of fs
SizeDescendingStable(top, fs) ==
    \A a, b \in 1..Len(top) :
        a < b => /\ top[a].size >= top[b].size
                 /\ top[a].size = top[b].size => IndexIn(fs, top[a]) < IndexIn(fs, top[b])

\* C8: for both writers the top-N list of a repository is ordered by size,
\* non-increasing, and records of equal size keep their discovery order.
C8_TopSortedStable ==
    \A nm \in DOMAIN repo_results :
        \A top \in TopLists(nm) : SizeDescendingStable(top, repo_results[nm])

\* both writers wrote a list with two records of one size, from an input in
\* which a smaller record comes before a larger one
C8_Witness ==
    /\ excel_out # None
    /\ json_out # None
    /\ \E nm \in DOMAIN repo_results :
          LET fs == repo_results[nm]
              top == json_out[nm].top_functions
          IN /\ \E a, b \in 1..Len(top) : a < b /\ top[a].size = top[b].size
             /\ \E k \in 1..Len(fs) - 1 : fs[k].size < fs[k + 1].size
             /\ Len(excel_out[nm].rows) = Len(top)

\* C9: every emitted row has size >= min_size, the number of rows is
\* min(top_n, number of records with size >= min_size), and no emitted record is
\* smaller than a record with size >= min_size that was left out.
C9_FilterThenTopN ==
    \A nm \in DOMAIN repo_results :
        \A top \in TopLists(nm) :
            LET fs == repo_results[nm]
                count_ == Cardinality(Selected(fs))
                emitted == {IndexIn(fs, top[a]) : a \in 1..Len(top)}
            IN /\ \A a \in 1..Len(top) : FromInput(fs, top[a]) /\ top[a].size >= min_size
               /\ Len(top) = IF top_n < count_ THEN top_n ELSE count_
               /\ Cardinality(emitted) = Len(top)
               /\ \A k \in Selected(fs) \ emitted :
                     \A a \in 1..Len(top) : top[a].size >= fs[k].size

\* both writers cut a list: a record is below min_size, and more than top_n
\* records are not
C9_Witness ==
    /\ excel_out # None
    /\ json_out # None
    /\ \E nm \in DOMAIN repo_results :
          LET fs == repo_results[nm]
          IN /\ Selected(fs) # 1..Len(fs)
             /\ Cardinality(Selected(fs)) > top_n
             /\ Len(json_out[nm].top_functions) = top_n

\* the sum of the sizes of the records of fs at the places S
RECURSIVE SumSizes(_, _)
SumSizes(fs, S) ==
    IF S = {} THEN 0
    ELSE LET k == CHOOSE x \in S : TRUE
         IN fs[k].size + SumSizes(fs, S \ {k})

\* the statistics of fs taken over the places S: count, largest, smallest, average
StatsOver(fs, S) ==
    [count |-> Cardinality(S),
     largest |-> Max({fs[k].size : k \in S}),
     smallest |-> Min({fs[k].size : k \in S}),
     average |-> RoundTenths(SumSizes(fs, S), Cardinality(S))]

\* the statistics a writer put in the summary sm
WrittenStats(sm, writer) ==
    IF writer = "xlsx"
    THEN [count |-> sm.total_functions_found,
          largest |-> sm.largest_function,
          smallest |-> sm.smallest_function,
          average |-> sm.average_function_size[1]]
    ELSE [count |-> sm.total_functions,
          largest |-> sm.largest_function_size,
          smallest |-> sm.smallest_function_size,
          average |-> sm.average_size]

\* records of sizes 3 and 20 with min_size = 1 and top_n = 5: the 20-line function
\* first, count 2, max 20, min 3
C10_Example ==
    LET e == JSONEntry(FunctionsOfSizes(<<3, 20>>), 5, 1)
    IN /\ e.summary.total_functions = 2
       /\ e.summary.largest_function_size = 20
       /\ e.summary.smallest_function_size = 3
       /\ e.top_functions[1].size = 20
       /\ e.top_functions[2].size = 3

\* C10: the summary statistics of a repository (count, largest, smallest and the
\* average) are those of all the records with size >= min_size, whatever top_n is.
C10_StatsOverFiltered ==
    /\ C10_Example
    /\ \A nm \in DOMAIN repo_results :
          LET fs == repo_results[nm]
          IN Selected(fs) # {}
             => /\ excel_out # None
                   => WrittenStats(excel_out[nm].summary, "xlsx") = StatsOver(fs, Selected(fs))
                /\ json_out # None
                   => WrittenStats(json_out[nm].summary, "json") = StatsOver(fs, Selected(fs))

\* both writers wrote the statistics of a repository whose filtered records are
\* neither all its records nor its top-N list, and whose smallest size differs
\* between the three
C10_Witness ==
    /\ excel_out # None
    /\ json_out # None
    /\ \E nm \in DOMAIN repo_results :
          LET fs == repo_results[nm]
              top == json_out[nm].top_functions
          IN /\ Selected(fs) # {}
             /\ Selected(fs) # 1..Len(fs)
             /\ Len(top) < Cardinality(Selected(fs))
             /\ json_out[nm].summary.smallest_function_size
                   # Min({fs[k].size : k \in 1..Len(fs)})
             /\ json_out[nm].summary.smallest_function_size
                   # Min({top[a].size : a \in 1..Len(top)})

\* the records of the rows of a sheet, without their ranks
ExcelRecords(sheet) ==
    [k \in 1..Len(sheet.rows) |->
        FunctionInfo(sheet.rows[k].name, sheet.rows[k].file_path,
                     sheet.rows[k].start_line, sheet.rows[k].end_line,
                     sheet.rows[k].size)]

\* C11: for the same repo_results, top_n and min_size the two writers list the
\* same records in the same order for every repository and report the same
\* count, largest size and smallest size; both leave the statistics out exactly
\* when no record of the repository has size >= min_size.
C11_WritersAgree ==
    (excel_out # None /\ json_out # None)
    => /\ DOMAIN excel_out = DOMAIN json_out
       /\ \A nm \in DOMAIN repo_results :
             LET sheet == excel_out[nm]
                 entry == json_out[nm]
                 none == Selected(repo_results[nm]) = {}
             IN /\ ExcelRecords(sheet) = entry.top_functions
                /\ (sheet.summary = None) <=> none
                /\ (entry.summary = None) <=> none
                /\ ~none =>
                      /\ sheet.summary.total_functions_found
                            = entry.summary.total_functions
                      /\ sheet.summary.largest_function
                            = entry.summary.largest_function_size
                      /\ sheet.summary.smallest_function
                            = entry.summary.smallest_function_size

\* both writers have written two repositories: one with records whose
\* statistics are left out, and one with more selected records than rows
C11_Witness ==
    /\ excel_out # None
    /\ json_out # None
    /\ \E nm \in DOMAIN repo_results :
          /\ repo_results[nm] # <<>>
          /\ Selected(repo_results[nm]) = {}
          /\ excel_out[nm].summary = None
    /\ \E nm \in DOMAIN repo_results :
          /\ Cardinality(Selected(repo_results[nm])) > top_n
          /\ json_out[nm].summary # None

\* C20: the name of the sheet of a repository has 31 characters at most and
\* holds neither '/' nor '\'; it is the repository name with both separators
\* replaced by '_', cut to its first 31 characters.
C20_SheetName ==
    excel_out # None
    => \A nm \in DOMAIN repo_results :
          LET title == excel_out[nm].title
          IN /\ Len(title) <= 31
             /\ Len(title) = Min({Len(nm), 31})
             /\ \A k \in 1..Len(title) :
                   /\ title[k] \notin {"/", "\\"}
                   /\ title[k] = IF nm[k] \in {"/", "\\"} THEN "_" ELSE nm[k]

\* the sheet of a repository whose name is longer than 31 characters and holds
\* a '\' has been written
C20_Witness ==
    /\ excel_out # None
    /\ \E nm \in DOMAIN repo_results :
          /\ Len(nm) > 31
          /\ \E k \in 1..31 : nm[k] = "\\"
          /\ Len(excel_out[nm].title) = 31

\* C19: whenever reading the file fails (open fails, or a read fails at any
\* point while the lines are consumed), parse_functions of every parser returns
\* the empty list.
C19_UnreadableEmpty ==
    pc = "error" => result = <<>>

\* the part of C19 the code keeps: a failure of open() in any parser, and any
\* read failure in PythonParser, return the empty list
C19_UnreadableEmptyAtOpenOrPython ==
    (pc = "error" /\ (line_num = 0 \/ lang = "py")) => result = <<>>


\* ------------------------------------------------------------------------
\* Properties of scan_single_repository
\* ------------------------------------------------------------------------
\* the repository cannot be located: the clone exits with a failure or times
\* out, or the local path does not exist
LocateFails ==
    IF IsRemote(repo_path) THEN clone_outcome \in {"failed", "timeout"}
    ELSE ~path_exists

\* C12: for a local path that does not exist, a clone that exits non-zero or a
\* clone that times out, scan_single_repository returns (None, []) without
\* raising, and no file is scanned.
C12_FailureReturnsNone ==
    (spc \notin {"idle", "start"} /\ LocateFails)
    => /\ spc = "returned"
       /\ scan_ret = <<None, <<>>>>
       /\ visited = {}
       /\ scanned = <<>>
       /\ all_functions = <<>>

\* the clone of a repository that holds files has timed out and the call is over
C12_Witness ==
    /\ spc = "returned"
    /\ IsRemote(repo_path)
    /\ clone_outcome = "timeout"
    /\ tree # {}
    /\ scan_ret = <<None, <<>>>>

\* C13: for a remote locator the temporary clone directory no longer exists when
\* the call is over, however it ends (return after the scan, failed clone,
\* timeout, exception), and git clone runs once at most.
C13_TempDirRemoved ==
    /\ spc \in {"returned", "raised"} => ~temp_exists
    /\ clones <= 1
    /\ (IsRemote(repo_path) /\ spc \notin {"idle", "start"}) => clones = 1

\* an exception ended the walk of a clone after a file was parsed
C13_Witness ==
    /\ spc = "raised"
    /\ temp_dir # None
    /\ clone_outcome = "ok"
    /\ clones = 1
    /\ scanned # <<>>
    /\ ~temp_exists

\* f has one of the supported extensions
Supported(f) == \E k \in 1..Len(Extensions) : Matches(f, Extensions[k])

\* f lies under a directory of the repository whose name is in the skip set
UnderSkipDir(f) == InSkipDirs(f.dirs)

\* the set of the elements of a sequence
Range(seq) == {seq[k] : k \in 1..Len(seq)}

\* C14: a scan that returns a name has scanned exactly the files of the tree
\* with a supported extension that do not lie under a skip-set directory inside
\* the repository, whatever the directories that contain the root are called.
C14_ScansAllButSkipped ==
    (spc = "returned" /\ scan_ret[1] # None)
    => Range(scanned) = {f \in tree : Supported(f) /\ ~UnderSkipDir(f)}

\* what the code does instead: the skip test covers the components of the root
\* as well, so C14 holds for the roots none of whose components is in the skip
\* set
C14_ScansAllButSkippedOrRootSkipped ==
    (spc = "returned" /\ scan_ret[1] # None)
    => Range(scanned) =
          {f \in tree : /\ Supported(f)
                        /\ ~UnderSkipDir(f)
                        /\ ~InSkipDirs(parts(local_path))}

\* the records the parser gave for f, with the path of f below the root
RecordsBelowRoot(f) ==
    LET fs == parse_functions(f, file_parts(local_path, f))
    IN [k \in 1..Len(fs) |->
           FunctionInfo(fs[k].name, f.dirs \o <<f.name>>, fs[k].start_line,
                        fs[k].end_line, fs[k].size)]

\* the records of the files of seq, in order
RECURSIVE AllRecordsBelowRoot(_)
AllRecordsBelowRoot(seq) ==
    IF seq = <<>> THEN <<>>
    ELSE AllRecordsBelowRoot(SubSeq(seq, 1, Len(seq) - 1))
            \o RecordsBelowRoot(seq[Len(seq)])

\* the path ps starts with the path root
StartsWith(ps, root) ==
    Len(root) <= Len(ps) /\ SubSeq(ps, 1, Len(root)) = root

\* C15 as stated: every record of all_functions carries the path of its file
\* relative to the root, which is not absolute and does not start with the
\* scanned root path, and the name, start_line, end_line and size the parser
\* produced.
C15_RelativePaths ==
    spc \in {"walk", "returned", "raised"}
    => /\ all_functions = AllRecordsBelowRoot(scanned)
       /\ \A k \in 1..Len(all_functions) :
             /\ all_functions[k].file_path[1] # <<"/">>
             /\ local_path # None
                => ~StartsWith(all_functions[k].file_path, parts(local_path))

\* C15, amended: every record of all_functions carries the path of its file
\* relative to the root, which is not absolute and, when the scanned root path is
\* absolute, does not start with it, and the name, start_line, end_line and size
\* the parser produced.
C15_RelativePathsBelowRoot ==
    spc \in {"walk", "returned", "raised"}
    => /\ all_functions = AllRecordsBelowRoot(scanned)
       /\ \A k \in 1..Len(all_functions) :
             /\ all_functions[k].file_path[1] # <<"/">>
             /\ (local_path # None /\ parts(local_path)[1] = <<"/">>)
                => ~StartsWith(all_functions[k].file_path, parts(local_path))

\* the scan of a clone has returned the records of a file in a subdirectory
C15_Witness ==
    /\ spc = "returned"
    /\ local_path = TempDir
    /\ \E k \in 1..Len(scan_ret[2]) : Len(scan_ret[2][k].file_path) >= 2
    /\ Len(scan_ret[2]) >= 3


\* ------------------------------------------------------------------------
\* Properties of main
\* ------------------------------------------------------------------------
\* an option is below 1, or the extension of the output file does not match the
\* selected or inferred format
InvalidOptions ==
    \/ jobs < 1
    \/ top_n < 1
    \/ min_size < 1
    \/ format = "auto" /\ output \notin {".xlsx", ".json"}
    \/ format = "xlsx" /\ output # ".xlsx"
    \/ format = "json" /\ output # ".json"

\* C16: with jobs, top_n or min_size below 1, or an output extension that does
\* not match the format, main exits with an error before a scan task is
\* submitted, a worker starts a clone or an output is written.
C16_InvalidOptionsExitFirst ==
    (mpc # "idle" /\ InvalidOptions)
    => /\ mpc \in {"validate", "error"}
       /\ futures = <<>>
       /\ repo_results = <<>>
       /\ excel_out = None
       /\ json_out = None

\* main has exited on min_size = 0 with every other option valid and
\* repositories to scan
C16_Witness ==
    /\ mpc = "error"
    /\ jobs >= 1
    /\ top_n >= 1
    /\ min_size < 1
    /\ format = "auto"
    /\ output = ".json"
    /\ input_file # "missing"
    /\ Len(repositories) >= 2

\* the tasks whose worker returned a name
Succeeded ==
    {k \in 1..Len(futures) :
        /\ futures[k].state \in {"finished", "collected"}
        /\ ~futures[k].raised
        /\ futures[k].ret[1] # None}

\* the tasks whose worker raised or returned no name
Failed ==
    {k \in 1..Len(futures) :
        /\ futures[k].state \in {"finished", "collected"}
        /\ (futures[k].raised \/ futures[k].ret[1] = None)}

\* the entries of the output file: the sheets of the workbook or the entries of
\* the JSON document
Written ==
    IF output_format = "json"
    THEN (IF json_out = None THEN {} ELSE DOMAIN json_out)
    ELSE (IF excel_out = None THEN {} ELSE DOMAIN excel_out)

\* the entry of task k in repo_results and in the output holds the records the
\* worker of k returned
OwnRecords(k) ==
    LET repo_name == futures[k].ret[1]
    IN /\ repo_name \in DOMAIN repo_results
       /\ repo_results[repo_name] = futures[k].ret[2]
       /\ repo_name \in Written
       /\ output_format = "json"
          => json_out[repo_name].top_functions
                = JSONEntry(futures[k].ret[2], top_n, min_size).top_functions
       /\ output_format # "json"
          => excel_out[repo_name].rows
                = ExcelSheet(repo_name, futures[k].ret[2], top_n, min_size).rows

\* C17: in a run in which a worker returned no name or raised, the output holds
\* for every other repository that was scanned exactly the records its own
\* worker returned.
C17_FailureIsolated ==
    (mpc = "done" /\ Failed # {}) => \A k \in Succeeded : OwnRecords(k)

\* the part of C17 the code keeps: collecting a result without a name or an
\* exception changes no entry of repo_results
C17_FailedLeavesResults ==
    [][\A k \in 1..Len(futures) :
          (/\ mpc = "loop"
           /\ futures[k].state = "finished"
           /\ futures'[k].state = "collected"
           /\ (futures[k].raised \/ futures[k].ret[1] = None))
          => repo_results' = repo_results]_vars

\* the part of C17 the code keeps: the records are those of the own worker for
\* every repository whose name no other scanned repository of the run has
C17_FailureIsolatedUnlessNameShared ==
    (mpc = "done" /\ Failed # {})
    => \A k \in Succeeded :
          (\A m \in Succeeded \ {k} : futures[m].ret[1] # futures[k].ret[1])
          => OwnRecords(k)

\* C18: the output has one entry for every locator that was scanned: k distinct
\* locators give k entries, also when two of them share the last path component.
C18_EntryPerLocator ==
    mpc = "done"
    => /\ Cardinality(DOMAIN repo_results)
            = Cardinality({repositories[k] : k \in Succeeded})
       /\ Cardinality(Written) = Cardinality({repositories[k] : k \in Succeeded})

\* what the code does instead: one entry for every name
C18_EntryPerName ==
    mpc = "done"
    => /\ Cardinality(DOMAIN repo_results)
            = Cardinality({RepoName(repositories[k]) : k \in Succeeded})
       /\ Cardinality(Written)
            = Cardinality({RepoName(repositories[k]) : k \in Succeeded})

\* C21: a writer is invoked, and main ends, only when every submitted scan was
\* processed, so no worker still runs then; a future is processed only after
\* its worker finished, and once processed it is never processed again.
C21_WriteAfterAllScans ==
    [][/\ (writer_calls' # writer_calls \/ (mpc = "loop" /\ mpc' = "done"))
          => \A k \in 1..Len(futures) : futures[k].state = "collected"
       /\ \A k \in 1..Len(futures) :
             /\ futures[k].state = "collected" => futures'[k] = futures[k]
             /\ (futures'[k].state = "collected" /\ futures[k].state # "collected")
                => futures[k].state = "finished"]_vars

\* the output was written after three scans, one of which raised and one of
\* which returned a name, with two worker processes
C21_Witness ==
    /\ mpc = "done"
    /\ writer_calls # <<>>
    /\ jobs >= 2
    /\ Len(futures) = 3
    /\ \E k \in 1..Len(futures) : futures[k].raised
    /\ Succeeded # {}

\* repo_results after the results of the first k futures, taken in the order
\* of submission
RECURSIVE InSubmissionOrder(_)
InSubmissionOrder(k) ==
    IF k = 0 THEN <<>>
    ELSE IF k \in Succeeded
    THEN Put(InSubmissionOrder(k - 1), futures[k].ret[1], futures[k].ret[2])
    ELSE InSubmissionOrder(k - 1)

\* C26: for a given list of repositories and given results of the workers, every
\* order of completion leaves the entries and records that the order of
\* submission leaves.
C26_OrderIndependent ==
    mpc = "done" => repo_results = InSubmissionOrder(Len(futures))

\* the part of C26 the code keeps: the order does not matter when no two
\* scanned repositories have the same name
C26_OrderIndependentUnlessNameShared ==
    (/\ mpc = "done"
     /\ \A k, m \in Succeeded : k # m => futures[k].ret[1] # futures[m].ret[1])
    => repo_results = InSubmissionOrder(Len(futures))

\* C27: once every submitted scan was processed, completed_count is the number
\* of submitted repositories, whatever the workers returned or raised, and it
\* never exceeds that number.
C27_CompletedCountReachesTotal ==
    /\ completed_count <= Len(repositories)
    /\ mpc = "done" => completed_count = Len(futures)

\* what the code does instead: completed_count counts the processed futures
\* that raised or returned a name
C27_CompletedCountSkipsNull ==
    mpc \in {"loop", "done"}
    => completed_count =
          Cardinality({k \in 1..Len(futures) :
                          /\ futures[k].state = "collected"
                          /\ (futures[k].raised \/ futures[k].ret[1] # None)})

\* C30: main invokes a writer exactly when a scan returned a name: without one
\* no output is written, and with one the writer of the selected format, and
\* no other, is invoked once.
C30_WriterIffSuccess ==
    mpc # "idle"
    => /\ Len(writer_calls) <= 1
       /\ mpc # "done" => writer_calls = <<>>
       /\ mpc = "done"
          => writer_calls = IF Succeeded # {} THEN <<output_format>> ELSE <<>>
       /\ writer_calls = <<>> => (excel_out = None /\ json_out = None)
       /\ writer_calls = <<"json">> => (excel_out = None /\ json_out # None)
       /\ writer_calls = <<"xlsx">> => (json_out = None /\ excel_out # None)

\* main is over after a worker raised and another returned (None, []), and
\* nothing was written
C30_Witness ==
    /\ mpc = "done"
    /\ Succeeded = {}
    /\ \E k \in 1..Len(futures) : futures[k].raised
    /\ \E k \in 1..Len(futures) : ~futures[k].raised
    /\ writer_calls = <<>>


\* ------------------------------------------------------------------------
\* Further properties of the parsers
\* ------------------------------------------------------------------------
\* C22: in the brace parsers a header line read while nothing is tracked whose
\* net brace count is not zero, positive or negative, starts the tracking of
\* that function with that count and appends no record; no such header is
\* dropped.
C22_NonzeroStartsTracking ==
    [][(/\ lang \in BraceLangs
        /\ pc = "loop"
        /\ line_num < Len(lines)
        /\ line_num' = line_num + 1
        /\ current_function = None
        /\ ~(lang = "cs" /\ pending_method # None
                /\ strip(lines[line_num + 1]) = <<"{">>)
        /\ HeaderMatch(lines[line_num + 1]) # None
        /\ BraceDelta(lines[line_num + 1]) # 0)
       => (/\ current_function' = <<HeaderMatch(lines[line_num + 1])[1],
                                    line_num + 1, BraceDelta(lines[line_num + 1])>>
           /\ functions' = functions)]_vars

\* the part of C22 the code keeps: a header with a positive net brace count
\* starts the tracking, in the C# parser one with a negative count too, and
\* the JavaScript and Java parsers skip a header with a negative count
C22_PositiveStartsTracking ==
    [][(/\ lang \in BraceLangs
        /\ pc = "loop"
        /\ line_num < Len(lines)
        /\ line_num' = line_num + 1
        /\ current_function = None
        /\ ~(lang = "cs" /\ pending_method # None
                /\ strip(lines[line_num + 1]) = <<"{">>)
        /\ HeaderMatch(lines[line_num + 1]) # None
        /\ BraceDelta(lines[line_num + 1]) # 0)
       => IF BraceDelta(lines[line_num + 1]) > 0 \/ lang = "cs"
          THEN /\ current_function' = <<HeaderMatch(lines[line_num + 1])[1],
                                        line_num + 1, BraceDelta(lines[line_num + 1])>>
               /\ functions' = functions
          ELSE /\ current_function' = None
               /\ functions' = functions]_vars

\* the lines SigEnd(i0) + 1 .. SigEnd(i0) + m0 that follow the signature of the
\* header at line i0 are all substantive and indented deeper than the header,
\* and the body stops there: at the end of the file or at a substantive line
\* indented no deeper than the header (0-indexed)
BodyOf(i0, m0) ==
    /\ SigEnd(i0) + m0 <= Len(lines) - 1
    /\ \A b0 \in SigEnd(i0) + 1..SigEnd(i0) + m0 :
          Substantive(b0) /\ Indent(lines[b0 + 1]) > Indent(lines[i0 + 1])
    /\ Terminator(i0) = SigEnd(i0) + m0 + 1

\* the records of the header at line i0 (0-indexed)
RecordsAt(i0) == {k \in 1..Len(functions) : functions[k].start_line = i0 + 1}

\* C23: a Python function whose signature spans k >= 1 lines, closed by a line
\* with zero paren balance and a colon, and is followed by m >= 1 consecutive
\* substantive lines indented deeper than the def line has exactly one record;
\* it starts at the def line and its size is k + m.
C23_SignaturePlusBody ==
    (lang = "py" /\ pc = "done")
    => \A i0 \in 0..Len(lines) - 1 : \A m0 \in 1..Len(lines) :
          (FUNC_PATTERN(lines[i0 + 1]) # None /\ SigEnd(i0) < Len(lines) /\ BodyOf(i0, m0))
          => /\ Cardinality(RecordsAt(i0)) = 1
             /\ \A k \in RecordsAt(i0) :
                   /\ functions[k].size = (SigEnd(i0) - i0 + 1) + m0
                   /\ functions[k].end_line = SigEnd(i0) + m0 + 1
                   /\ functions[k].name = FUNC_PATTERN(lines[i0 + 1])[1]

\* a parsed file with a signature of two lines followed by a body of one line
\* and a line at the indentation of the header: a record of size three
C23_Witness ==
    /\ lang = "py" /\ pc = "done"
    /\ \E i0 \in 0..Len(lines) - 1 :
          /\ FUNC_PATTERN(lines[i0 + 1]) # None
          /\ SigEnd(i0) = i0 + 1
          /\ BodyOf(i0, 1)
          /\ Terminator(i0) < Len(lines)
          /\ \E k \in RecordsAt(i0) : functions[k].size = 3


\* ------------------------------------------------------------------------
\* Further properties of scan_single_repository
\* ------------------------------------------------------------------------
\* the records as the parsers created them for the files of seq, in order
RECURSIVE AllParsed(_)
AllParsed(seq) ==
    IF seq = <<>> THEN <<>>
    ELSE AllParsed(SubSeq(seq, 1, Len(seq) - 1))
            \o parse_functions(seq[Len(seq)], file_parts(local_path, seq[Len(seq)]))

\* C24 as stated: a record is immutable once created, so the records
\* scan_single_repository holds are the records the parsers created, with every
\* field as the parser set it.
C24_RecordsUnchanged ==
    spc \in {"walk", "returned", "raised"}
    => all_functions = AllParsed(scanned)

\* C24, amended: scan_single_repository changes one field of a record the parser
\* created, file_path, once, before the record joins all_functions; name,
\* start_line, end_line and size stay as the parser set them, and a record that
\* has joined all_functions is not changed again, up to and in the value
\* returned.
C24_OnlyPathRewritten ==
    [][/\ Len(all_functions') >= Len(all_functions)
       /\ \A k \in 1..Len(all_functions) : all_functions'[k] = all_functions[k]
       /\ spc' \in {"walk", "returned", "raised"}
          => /\ Len(all_functions') = Len(AllParsed(scanned'))
             /\ \A k \in 1..Len(all_functions') :
                   /\ all_functions'[k].name = AllParsed(scanned')[k].name
                   /\ all_functions'[k].start_line = AllParsed(scanned')[k].start_line
                   /\ all_functions'[k].end_line = AllParsed(scanned')[k].end_line
                   /\ all_functions'[k].size = AllParsed(scanned')[k].size
       /\ (spc' = "returned" /\ scan_ret'[1] # None)
          => scan_ret'[2] = all_functions']_vars

\* a scan has returned the records of two files or more, one of them with a
\* second function, and the path of a record is not the path its parser set
C24_Witness ==
    /\ spc = "returned"
    /\ scan_ret[1] # None
    /\ Len(scanned) >= 2
    /\ \E k \in 1..Len(scan_ret[2]) :
          /\ scan_ret[2][k].start_line > 1
          /\ scan_ret[2][k].file_path # AllParsed(scanned)[k].file_path
          /\ scan_ret[2][k].size = AllParsed(scanned)[k].size


\* ------------------------------------------------------------------------
\* Further properties of CSharpParser
\* ------------------------------------------------------------------------
\* the method tracked after line n with counter c was declared at line s, a
\* declaration without '{' that no later declaration replaced before the first
\* lone '{' after it, and was counted from that brace on, the brace as 1
\* (1-indexed)
DeclOpened(s, n, c) ==
    /\ CSMatch(lines[s]) # None
    /\ s < TrackStart(s) /\ TrackStart(s) <= n
    /\ \A k \in s + 1..TrackStart(s) - 1 : CSMatch(lines[k]) = None
    /\ c = 1 + BraceSum(TrackStart(s) + 1, n)

\* C25: in CSharpParser a lone '{' read while a declaration is pending starts the
\* tracking of that declaration with counter 1 and clears the pending one; a
\* declaration without '{' read while nothing is tracked replaces the pending
\* one; a method tracked from a declaration without '{' is the latest one
\* declared before its brace and is counted from the brace line on; and the
\* record emitted when the counter returns to zero starts at the declaration
\* line and ends at that line.
C25_PendingOpenedByLoneBrace ==
    [][(lang = "cs" /\ pc = "loop" /\ line_num < Len(lines) /\ line_num' = line_num + 1)
       => LET line == lines[line_num + 1]
              n == line_num + 1
          IN /\ (current_function = None /\ pending_method # None
                    /\ strip(line) = <<"{">>)
                => /\ current_function' = <<pending_method[1], pending_method[2], 1>>
                   /\ pending_method' = None
                   /\ functions' = functions
             /\ (current_function = None /\ CSMatch(line) # None /\ ~In("{", line))
                => /\ pending_method' = <<CSMatch(line)[1], n>>
                   /\ current_function' = None
                   /\ functions' = functions
             /\ (current_function' # None /\ ~In("{", lines[current_function'[2]]))
                => DeclOpened(current_function'[2], n, current_function'[3])
             /\ (current_function # None /\ Len(functions') > Len(functions))
                => /\ functions'[Len(functions')].start_line = current_function[2]
                   /\ functions'[Len(functions')].name = current_function[1]
                   /\ functions'[Len(functions')].end_line = n
                   /\ current_function[3] + BraceDelta(line) = 0]_vars

\* a parsed C# file in which a declaration without '{' replaced a pending one,
\* was opened by a lone '{' and was recorded from its own line to the closing
\* line
C25_Witness ==
    /\ lang = "cs" /\ pc = "done"
    /\ \E k \in 1..Len(functions) :
          LET s == functions[k].start_line
          IN /\ s >= 2
             /\ ~In("{", lines[s])
             /\ CSMatch(lines[s - 1]) # None /\ ~In("{", lines[s - 1])
             /\ strip(lines[s + 1]) = <<"{">>
             /\ functions[k].end_line = s + 2
             /\ functions[k].size = 3


\* C29: in CSharpParser, after any number of lines read, current_method and
\* pending_method are not both set, and a method that is tracked has a brace
\* counter other than zero and a start line that is at least 1 and at most the
\* number of the line read last.
C29_TrackedOrPending ==
    (lang = "cs" /\ pc \in {"loop", "done", "error"})
    => /\ ~(current_function # None /\ pending_method # None)
       /\ current_function # None
          => /\ current_function[3] # 0
             /\ 1 <= current_function[2]
             /\ current_function[2] <= line_num

\* a method opened by a lone '{' two lines or more after its declaration is
\* tracked below zero, with no declaration pending
C29_Witness ==
    /\ lang = "cs" /\ pc = "loop"
    /\ current_function # None
    /\ current_function[3] < 0
    /\ current_function[2] + 2 <= line_num
    /\ ~In("{", lines[current_function[2]])
    /\ pending_method = None


\* ------------------------------------------------------------------------
\* Further properties of PythonParser
\* ------------------------------------------------------------------------
\* the record a starts before the record b and reaches the line b starts at
Encloses(a, b) ==
    /\ functions[a].start_line < functions[b].start_line
    /\ functions[b].start_line <= functions[a].end_line

\* every line that matches the def pattern has exactly one record, every record
\* starts at such a line, the records are in increasing order of start_line, and
\* a def whose signature does not close before the end of the file has size 1
OneRecordPerDef ==
    /\ \A i0 \in 0..Len(lines) - 1 :
          FUNC_PATTERN(lines[i0 + 1]) # None
          => /\ Cardinality(RecordsAt(i0)) = 1
             /\ SigEnd(i0) = Len(lines)
                => \A k \in RecordsAt(i0) : functions[k].size = 1
    /\ \A k \in 1..Len(functions) :
          FUNC_PATTERN(lines[functions[k].start_line]) # None
    /\ \A k \in 1..Len(functions) - 1 :
          functions[k].start_line < functions[k + 1].start_line

\* C28: PythonParser returns exactly one record for every line that matches the
\* def pattern, in increasing order of start_line; a def whose signature never
\* closes has size 1; and the record of a def that starts inside the range of
\* another record ends inside that range.
C28_OneRecordPerDefNested ==
    (lang = "py" /\ pc = "done")
    => /\ OneRecordPerDef
       /\ \A a, b \in 1..Len(functions) :
             Encloses(a, b) => functions[b].end_line <= functions[a].end_line

\* the part of C28 the code keeps: one record per def line, in order, size 1
\* for a signature that never closes; and the record of a def that starts
\* inside the range of another record ends inside that range when its
\* signature closes inside it
C28_OneRecordPerDefNestedWhenClosedInside ==
    (lang = "py" /\ pc = "done")
    => /\ OneRecordPerDef
       /\ \A a, b \in 1..Len(functions) :
             (Encloses(a, b)
                 /\ SigEnd(functions[b].start_line - 1) + 1 <= functions[a].end_line)
             => functions[b].end_line <= functions[a].end_line
====
